---- MODULE Spec2Model ----
(***************************************************************************)
(* Filing lifecycle of the congressional trading monitor: the registry     *)
(* (congress_filings.json) and the ledger (trading_data.json) kept by      *)
(* DataManager, the status operations of FilingStatusManager, the          *)
(* discovery update of FilingScraper and the batch run of DailyRun.        *)
(*                                                                         *)
(* Python values are modelled as follows.  A dict is a function whose      *)
(* domain is its key set (a record when the keys are field names), so a    *)
(* missing key is a missing domain element.  A dict whose iteration order  *)
(* the code depends on (members) is a sequence of entries carrying their   *)
(* key.  A string the code takes apart (links, names, offices, error       *)
(* messages) is a sequence of one-character strings; a string the code     *)
(* only compares (statuses, field names) is a TLA+ string.                 *)
(***************************************************************************)
EXTENDS Integers, Sequences, FiniteSets, TLC

VARIABLES
    congress_file,   \* data_dir/congress_filings.json: the persisted registry
    trading_file,    \* data_dir/trading_data.json: the persisted ledger
    tmp_files,       \* temporary files left in data_dir by _atomic_write
    run,             \* position and locals of DailyRun.run
    last_call,       \* the operation that made the last step, with its arguments and outcome
    api_calls        \* store operations called directly so far, outside DailyRun.run

vars == <<congress_file, trading_file, tmp_files, run, last_call, api_calls>>

(***************************************************************************)
(* Bounds of the model.                                                    *)
(***************************************************************************)
MaxFilings == 2      \* filings the registry may hold before discovery stops adding
MaxScrape == 2       \* rows one scrape returns
MaxTmp == 2          \* temporary files that may pile up before writes stop failing
MaxApiCalls == 1     \* store operations called directly, outside DailyRun.run

(***************************************************************************)
(* Python's None, and timestamps.  A timestamp the code compares with the  *)
(* clock (last_updated) is kept as its age: "recent" when written less     *)
(* than 12 hours ago, "old" afterwards.  A timestamp no code path compares *)
(* is kept as the fact that it is set.                                     *)
(***************************************************************************)
None == "None"
Recent == "recent"
Old == "old"
Timestamp == "ts"

(***************************************************************************)
(* String operations on sequences of characters.                           *)
(***************************************************************************)
RECURSIVE str_replace_empty(_, _)
\* s.replace(sub, ""): leftmost non-overlapping occurrences of sub removed.
str_replace_empty(s, sub) ==
    IF Len(s) < Len(sub) THEN s
    ELSE IF SubSeq(s, 1, Len(sub)) = sub
         THEN str_replace_empty(SubSeq(s, Len(sub) + 1, Len(s)), sub)
         ELSE <<Head(s)>> \o str_replace_empty(Tail(s), sub)

RECURSIVE str_strip(_)
\* s.strip(): leading and trailing blanks removed.
str_strip(s) ==
    IF s = <<>> THEN s
    ELSE IF Head(s) = " " THEN str_strip(Tail(s))
    ELSE IF s[Len(s)] = " " THEN str_strip(SubSeq(s, 1, Len(s) - 1))
    ELSE s

\* s.split(sep)[-1] for a one-character sep: what follows the last sep.
str_last_segment(s, sep) ==
    LET cuts == {i \in 1..Len(s) : s[i] = sep}
        from == IF cuts = {} THEN 1
                ELSE 1 + CHOOSE i \in cuts : \A j \in cuts : j <= i
    IN SubSeq(s, from, Len(s))

\* sub in s
str_contains(s, sub) ==
    \E i \in 1..(Len(s) - Len(sub) + 1) : SubSeq(s, i, i + Len(sub) - 1) = sub

UpperToLower ==
    [c \in {"A","B","C","D","E","F","G","H","I","J","K","L","M",
            "N","O","P","Q","R","S","T","U","V","W","X","Y","Z"} |->
        CASE c = "A" -> "a" [] c = "B" -> "b" [] c = "C" -> "c" [] c = "D" -> "d"
          [] c = "E" -> "e" [] c = "F" -> "f" [] c = "G" -> "g" [] c = "H" -> "h"
          [] c = "I" -> "i" [] c = "J" -> "j" [] c = "K" -> "k" [] c = "L" -> "l"
          [] c = "M" -> "m" [] c = "N" -> "n" [] c = "O" -> "o" [] c = "P" -> "p"
          [] c = "Q" -> "q" [] c = "R" -> "r" [] c = "S" -> "s" [] c = "T" -> "t"
          [] c = "U" -> "u" [] c = "V" -> "v" [] c = "W" -> "w" [] c = "X" -> "x"
          [] c = "Y" -> "y" [] c = "Z" -> "z"]

\* s.lower()
str_lower(s) ==
    [i \in 1..Len(s) |-> IF s[i] \in DOMAIN UpperToLower THEN UpperToLower[s[i]] ELSE s[i]]

(***************************************************************************)
(* dict helpers.                                                           *)
(***************************************************************************)
\* d.get(k, dflt)
dict_get(d, k, dflt) == IF k \in DOMAIN d THEN d[k] ELSE dflt

\* d[k] = v
dict_set(d, k, v) == [x \in (DOMAIN d) \cup {k} |-> IF x = k THEN v ELSE d[x]]

\* if k not in d: d[k] = v
dict_setdefault(d, k, v) == IF k \in DOMAIN d THEN d ELSE dict_set(d, k, v)

RECURSIVE SumSeq(_)
SumSeq(s) == IF s = <<>> THEN 0 ELSE Head(s) + SumSeq(Tail(s))

RECURSIVE Flatten(_)
Flatten(ss) == IF ss = <<>> THEN <<>> ELSE Head(ss) \o Flatten(Tail(ss))

\* s[:n]
take(s, n) == SubSeq(s, 1, IF Len(s) < n THEN Len(s) ELSE n)

\* the first index of s whose element has value under key, 0 when there is none
first_with(s, key, value) ==
    IF \E i \in 1..Len(s) : s[i][key] = value
    THEN CHOOSE i \in 1..Len(s) : s[i][key] = value /\ \A j \in 1..(i - 1) : s[j][key] # value
    ELSE 0

(***************************************************************************)
(* The document identifier of a link.                                      *)
(***************************************************************************)
DotPdf == <<".", "p", "d", "f">>

\* link.split('/')[-1].replace('.pdf', '')
pdf_id_of(link) == str_replace_empty(str_last_segment(link, "/"), DotPdf)

(***************************************************************************)
(* What the disclosure site serves: table rows, each with the anchor's     *)
(* href and text and the Office, Filing Year and Filing cells.             *)
(***************************************************************************)
base_url == <<"u">>

HrefA == <<"2","4","/","1",".","p","d","f">>
HrefB == <<"2","5","/","1",".","p","d","f">>
HrefC == <<"2","4","/","2",".","p","d","f">>

\* "Hon.. Ada" and "Ada" of office "CA1" are one member; "Bo" of "NY 2" another.
RowA == [href |-> HrefA, name |-> <<"H","o","n",".","."," ","A","d","a">>,
         office |-> <<"C","A","1">>, year |-> "2024", filing_type |-> <<"P","T","R">>]
RowB == [href |-> HrefB, name |-> <<"B","o">>,
         office |-> <<"N","Y"," ","2">>, year |-> "2025", filing_type |-> <<"P","T","R"," ","A">>]
RowC == [href |-> HrefC, name |-> <<"A","d","a">>,
         office |-> <<"C","A","1">>, year |-> "2024", filing_type |-> <<"P","T","R">>]
RowD == [href |-> HrefC, name |-> <<"B","o">>,
         office |-> <<"N","Y"," ","2">>, year |-> "2025", filing_type |-> <<"F","D">>]

Rows == {RowA, RowB, RowC, RowD}

\* the row lists one scrape can find
ScrapePages == UNION {[1..n -> Rows] : n \in 0..MaxScrape}

link_of(row) == base_url \o <<"/">> \o row.href

LinkA == link_of(RowA)
LinkB == link_of(RowB)
LinkC == link_of(RowC)
Links == {LinkA, LinkB, LinkC}

(***************************************************************************)
(* The persisted files.  A file is absent, or holds JSON text: an object   *)
(* (its dict), some other JSON value, or text that does not parse (also    *)
(* what a write that stopped half way leaves).  json.dump followed by      *)
(* json.load gives back the dicts, lists, strings, numbers and booleans    *)
(* the stores hold, so an object file is kept as the dict it was written   *)
(* from.                                                                   *)
(***************************************************************************)
NoFile == [exists |-> FALSE]
ObjectFile(d) == [exists |-> TRUE, json |-> "object", data |-> d]
UnparsableFile == [exists |-> TRUE, json |-> "invalid"]
ArrayFile == [exists |-> TRUE, json |-> "array"]

count_filings(members) ==
    SumSeq([i \in 1..Len(members) |-> Len(dict_get(members[i], "filings", <<>>))])

EmptyRegistry ==
    [last_updated |-> None, total_members |-> 0, total_filings |-> 0, members |-> <<>>]

load_congress_data(file) ==
    IF ~file.exists THEN [ok |-> TRUE, data |-> EmptyRegistry]
    ELSE IF file.json = "invalid" THEN [ok |-> FALSE, error |-> "ValueError"]
    ELSE IF file.json # "object" \/ "members" \notin DOMAIN file.data
         \* the ValueError raised inside the try block is caught by its last handler
         THEN [ok |-> FALSE, error |-> "RuntimeError"]
    ELSE LET d1 == dict_setdefault(file.data, "total_members", Len(file.data.members))
         IN [ok |-> TRUE,
             data |-> dict_setdefault(d1, "total_filings", count_filings(d1.members))]

Faults == {"none", "create", "dump", "replace"}

TmpFile(target) == [target |-> target, complete |-> FALSE]

\* A write that opens the target itself and dumps into it, as
\* FilingScraper.save_data does: a dump that fails leaves the target cut short.
_write_in_place(target, file, tmp, data, fault) ==
    CASE fault = "create" -> [raised |-> TRUE, file |-> file, tmp |-> tmp]
      [] fault = "dump" -> [raised |-> TRUE, file |-> UnparsableFile, tmp |-> tmp]
      [] fault = "replace" -> [raised |-> TRUE, file |-> file, tmp |-> tmp]
      [] OTHER -> [raised |-> FALSE, file |-> ObjectFile(data), tmp |-> tmp]

\* The file and the temporary files after _atomic_write(file_path, data), and
\* whether it raised.  fault names the step that fails: creating the temporary
\* file, json.dump into it, or os.replace.
_atomic_write(target, file, tmp, data, fault) ==
    CASE fault = "create" ->
            [raised |-> TRUE, file |-> file, tmp |-> tmp]
      [] fault = "dump" ->
            \* temp_path is assigned after json.dump: the handler finds no
            \* temp_path in locals() and unlinks nothing
            [raised |-> TRUE, file |-> file, tmp |-> Append(tmp, TmpFile(target))]
      [] fault = "replace" ->
            \* temp_path is set and exists: the handler unlinks it
            [raised |-> TRUE, file |-> file, tmp |-> tmp]
      [] OTHER ->
            [raised |-> FALSE, file |-> ObjectFile(data), tmp |-> tmp]

\* save_congress_data writing the counters the caller passed, counting only when
\* they are missing.
save_congress_data_as_passed(file, tmp, data, fault) ==
    LET d1 == dict_setdefault(data, "total_members", Len(dict_get(data, "members", <<>>)))
        d2 == dict_setdefault(d1, "total_filings",
                              count_filings(dict_get(data, "members", <<>>)))
        d3 == dict_set(d2, "last_updated", Recent)
    IN IF "members" \notin DOMAIN data
       THEN [raised |-> TRUE, file |-> file, tmp |-> tmp]
       ELSE _atomic_write("congress_filings.json", file, tmp, d3, fault)

save_congress_data(file, tmp, data, fault) ==
    LET d1 == dict_set(data, "total_members", Len(dict_get(data, "members", <<>>)))
        d2 == dict_set(d1, "total_filings", count_filings(dict_get(data, "members", <<>>)))
        d3 == dict_set(d2, "last_updated", Recent)
    IN IF "members" \notin DOMAIN data
       THEN [raised |-> TRUE, file |-> file, tmp |-> tmp]
       ELSE _atomic_write("congress_filings.json", file, tmp, d3, fault)

\* an empty ledger returned without its summary counters
EmptyLedger_bare_summary ==
    [last_updated |-> "", pending_processing |-> <<>>, summary |-> <<>>,
     processed_filings |-> <<>>]

EmptyLedger ==
    [last_updated |-> "", pending_processing |-> <<>>,
     summary |-> [total_pdfs |-> 0, processed_pdfs |-> 0, pending_pdfs |-> 0],
     processed_filings |-> <<>>]

load_trading_data(file) ==
    IF ~file.exists THEN [ok |-> TRUE, data |-> EmptyLedger]
    ELSE IF file.json = "invalid" THEN [ok |-> FALSE, error |-> "ValueError"]
    ELSE IF file.json # "object" THEN [ok |-> FALSE, error |-> "TypeError"]
    ELSE LET d3 == dict_setdefault(
                       dict_setdefault(
                           dict_setdefault(file.data, "pending_processing", <<>>),
                           "processed_filings", <<>>),
                       "summary", <<>>)
             s3 == dict_setdefault(
                       dict_setdefault(
                           dict_setdefault(d3.summary, "total_pdfs", 0),
                           "processed_pdfs", Cardinality(DOMAIN d3.processed_filings)),
                       "pending_pdfs", Len(d3.pending_processing))
         IN [ok |-> TRUE, data |-> dict_set(d3, "summary", s3)]

save_trading_data(file, tmp, data, fault) ==
    LET s0 == dict_get(data, "summary", <<>>)
        s1 == dict_set(s0, "processed_pdfs",
                       Cardinality(DOMAIN dict_get(data, "processed_filings", <<>>)))
        s2 == dict_set(s1, "pending_pdfs", Len(dict_get(data, "pending_processing", <<>>)))
        d1 == dict_set(dict_set(data, "summary", s2), "last_updated", Recent)
    IN _atomic_write("trading_data.json", file, tmp, d1, fault)

(***************************************************************************)
(* FilingScraper: discovery.                                               *)
(***************************************************************************)
HonPrefix == <<"H","o","n",".","."," ">>
FormerMember == <<"F","o","r","m","e","r"," ","M","e","m","b","e","r">>

get_member_key(name, office) ==
    LET clean_name == str_strip(str_replace_empty(str_replace_empty(name, HonPrefix),
                                                  FormerMember))
        clean_office == str_replace_empty(str_strip(office), <<" ">>)
    IN clean_name \o <<"_">> \o clean_office

\* the record fetch_filings builds from one table row
scraped_filing(row) ==
    [pdf_id |-> pdf_id_of(link_of(row)), name |-> row.name, office |-> row.office,
     year |-> row.year, filing_type |-> row.filing_type, pdf_link |-> link_of(row),
     scraped_date |-> Timestamp]

\* the rows of the page whose Filing cell contains "PTR", in page order
fetch_filings(page) ==
    LET is_ptr(row) == str_contains(row.filing_type, <<"P","T","R">>)
        kept == SelectSeq(page, is_ptr)
    IN [i \in 1..Len(kept) |-> scraped_filing(kept[i])]

\* every filing of the registry, member after member
all_filings(data) ==
    LET ms == dict_get(data, "members", <<>>)
    IN Flatten([i \in 1..Len(ms) |-> dict_get(ms[i], "filings", <<>>)])

get_existing_pdf_urls(data) ==
    {f.pdf_link : f \in {all_filings(data)[i] : i \in 1..Len(all_filings(data))}}

\* every scraped filing taken for a new one
identify_new_filings_unfiltered(current_filings, existing_urls) == current_filings

identify_new_filings(current_filings, existing_urls) ==
    LET is_new(filing) == filing.pdf_link \notin existing_urls
    IN SelectSeq(current_filings, is_new)

\* FilingScraper.load_existing_data: the raw JSON of the registry file
load_existing_data(file) ==
    IF ~file.exists THEN [ok |-> TRUE, data |-> [last_updated |-> None, members |-> <<>>]]
    ELSE IF file.json = "invalid" THEN [ok |-> FALSE, error |-> "JSONDecodeError"]
    ELSE IF file.json # "object" THEN [ok |-> TRUE, data |-> <<>>]
    ELSE [ok |-> TRUE, data |-> file.data]

\* FilingScraper.save_data: the file is opened for writing and dumped into
save_data(file, data) == ObjectFile(data)

\* one pass of update_data's loop over new_filings
add_new_filing(members, filing) ==
    LET member_key == get_member_key(filing.name, filing.office)
        ms == IF first_with(members, "key", member_key) = 0
              THEN Append(members, [key |-> member_key, name |-> filing.name,
                                    office |-> filing.office, filings |-> <<>>])
              ELSE members
        at == first_with(ms, "key", member_key)
        filing_data == [pdf_id |-> filing.pdf_id, year |-> filing.year,
                        filing_type |-> filing.filing_type, pdf_link |-> filing.pdf_link,
                        scraped_date |-> filing.scraped_date,
                        processing_status |-> "pending"]
    IN [ms EXCEPT ![at].filings = Append(@, filing_data)]

RECURSIVE add_new_filings(_, _)
add_new_filings(members, new_filings) ==
    IF new_filings = <<>> THEN members
    ELSE add_new_filings(add_new_filing(members, Head(new_filings)), Tail(new_filings))

\* FilingScraper.update_data(force_full_scrape).  fetch is what fetch_filings
\* meets: a page of rows, or a network error that outlasts its retries.
update_data(file, force_full_scrape, fetch) ==
    LET loaded == load_existing_data(file)
        skipped == [raised |-> FALSE, scraped |-> FALSE, file |-> file, new |-> <<>>]
        failed == [raised |-> TRUE, scraped |-> FALSE, file |-> file, new |-> <<>>]
        add(existing_data, new_filings) ==
            LET members == add_new_filings(existing_data.members, new_filings)
                stamped == dict_set(existing_data, "last_updated", Recent)
                updated == dict_set(dict_set(dict_set(stamped, "members", members),
                                             "total_members", Len(members)),
                                    "total_filings", count_filings(members))
            IN IF Len(new_filings) = 0
               THEN [raised |-> FALSE, scraped |-> TRUE, file |-> save_data(file, stamped),
                     new |-> <<>>]
               ELSE IF "members" \notin DOMAIN existing_data
               THEN failed   \* KeyError of existing_data["members"]
               ELSE [raised |-> FALSE, scraped |-> TRUE, file |-> save_data(file, updated),
                     new |-> new_filings]
        scrape(existing_data) ==
            IF ~force_full_scrape /\ dict_get(existing_data, "last_updated", None) = Recent
            THEN skipped
            ELSE IF ~fetch.ok THEN failed
            ELSE add(existing_data,
                     identify_new_filings(fetch_filings(fetch.page),
                                          get_existing_pdf_urls(existing_data)))
    IN IF ~loaded.ok THEN failed
       ELSE IF file.exists /\ file.json # "object"
       THEN failed   \* AttributeError of existing_data.get on what is no dict
       ELSE scrape(loaded.data)

(***************************************************************************)
(* FilingStatusManager.                                                    *)
(***************************************************************************)
FilingStatus == {"pending", "processed", "failed"}

\* needs_processing taking only the filings whose status says pending
needs_processing_with_status(filing) ==
    dict_get(filing, "processing_status", None) = "pending"

needs_processing(filing) ==
    LET processing_status == dict_get(filing, "processing_status", None)
    IN processing_status = None \/ processing_status = "pending"

\* the filing_info entries of one member, in filing order
member_pending(member) ==
    LET todo == SelectSeq(dict_get(member, "filings", <<>>), needs_processing)
    IN [i \in 1..Len(todo) |->
           [member_key |-> member.key, member_name |-> member.name,
            pdf_url |-> todo[i].pdf_link, pdf_id |-> todo[i].pdf_id,
            filing_type |-> todo[i].filing_type, year |-> todo[i].year]]

\* identify_pending_filings() on loaded registry data
pending_of(congress_data) ==
    LET ms == dict_get(congress_data, "members", <<>>)
    IN Flatten([i \in 1..Len(ms) |-> member_pending(ms[i])])

identify_pending_filings(file) ==
    LET loaded == load_congress_data(file)
    IN IF loaded.ok THEN [raised |-> FALSE, filings |-> pending_of(loaded.data)]
       ELSE [raised |-> TRUE, filings |-> <<>>]

\* where the first filing with value under key sits, members and their filings
\* taken in order: <<member index, filing index>>, or <<0, 0>>
locate(members, key, value) ==
    LET found == {i \in 1..Len(members) : first_with(members[i].filings, key, value) # 0}
        mi == IF found = {} THEN 0 ELSE CHOOSE i \in found : \A j \in found : i <= j
    IN IF mi = 0 THEN <<0, 0>> ELSE <<mi, first_with(members[mi].filings, key, value)>>

\* the filing at a place, and the members with the filing at a place replaced
filing_at(members, at) == members[at[1]].filings[at[2]]

set_filing(members, at, filing) == [members EXCEPT ![at[1]].filings[at[2]] = filing]

\* update_status going on after the first filing found: every filing with the
\* id is given the status.
update_status_every_match(file, tmp, filing_id, status, error_message, fault) ==
    LET loaded == load_congress_data(file)
        set_status(filing) ==
            LET f1 == dict_set(dict_set(filing, "processing_status", status),
                               "status_updated", Timestamp)
            IN IF filing.pdf_id # filing_id THEN filing
               ELSE IF error_message # <<>> THEN dict_set(f1, "error", error_message)
               ELSE f1
        every(members) ==
            [i \in 1..Len(members) |->
                [members[i] EXCEPT !.filings = [j \in 1..Len(@) |-> set_status(@[j])]]]
        done(saved) == [raised |-> saved.raised, error |-> "OSError", file |-> saved.file,
                        tmp |-> saved.tmp]
        update(congress_data, at) ==
            IF at = <<0, 0>>
            THEN [raised |-> TRUE, error |-> "KeyError", file |-> file, tmp |-> tmp]
            ELSE done(save_congress_data(
                          file, tmp,
                          dict_set(congress_data, "members", every(congress_data.members)),
                          fault))
    IN IF status \notin FilingStatus
       THEN [raised |-> TRUE, error |-> "ValueError", file |-> file, tmp |-> tmp]
       ELSE IF ~loaded.ok
       THEN [raised |-> TRUE, error |-> loaded.error, file |-> file, tmp |-> tmp]
       ELSE update(loaded.data, locate(loaded.data.members, "pdf_id", filing_id))

\* FilingStatusManager.update_status(filing_id, status, error_message).  The code
\* tests only the truth of error_message: None and "" are both the empty string here.
update_status(file, tmp, filing_id, status, error_message, fault) ==
    LET loaded == load_congress_data(file)
        set_status(filing) ==
            LET f1 == dict_set(dict_set(filing, "processing_status", status),
                               "status_updated", Timestamp)
            IN IF error_message # <<>> THEN dict_set(f1, "error", error_message) ELSE f1
        done(saved) == [raised |-> saved.raised, error |-> "OSError", file |-> saved.file,
                        tmp |-> saved.tmp]
        update(congress_data, at) ==
            IF at = <<0, 0>>
            THEN [raised |-> TRUE, error |-> "KeyError", file |-> file, tmp |-> tmp]
            ELSE done(save_congress_data(
                          file, tmp,
                          dict_set(congress_data, "members",
                                   set_filing(congress_data.members, at,
                                              set_status(filing_at(congress_data.members,
                                                                   at)))),
                          fault))
    IN IF status \notin FilingStatus
       THEN [raised |-> TRUE, error |-> "ValueError", file |-> file, tmp |-> tmp]
       ELSE IF ~loaded.ok
       THEN [raised |-> TRUE, error |-> loaded.error, file |-> file, tmp |-> tmp]
       ELSE update(loaded.data, locate(loaded.data.members, "pdf_id", filing_id))

\* mark_filings_as_pending marking the listed filings whatever their status.
mark_filings_as_pending_any_status(file, tmp, pdf_urls, fault) ==
    LET loaded == load_congress_data(file)
        hit(filing) == \E i \in 1..Len(pdf_urls) : pdf_urls[i] = filing.pdf_link
        mark(filing) == IF hit(filing)
                        THEN dict_set(dict_set(filing, "processing_status", "pending"),
                                      "status_updated", Timestamp)
                        ELSE filing
        marked(members) ==
            [i \in 1..Len(members) |->
                [members[i] EXCEPT !.filings = [j \in 1..Len(@) |-> mark(@[j])]]]
        done(saved, updated_count) ==
            [raised |-> saved.raised, count |-> updated_count, file |-> saved.file,
             tmp |-> saved.tmp]
        update(congress_data, updated_count) ==
            IF updated_count > 0
            THEN done(save_congress_data(
                          file, tmp,
                          dict_set(congress_data, "members", marked(congress_data.members)),
                          fault),
                      updated_count)
            ELSE [raised |-> FALSE, count |-> 0, file |-> file, tmp |-> tmp]
    IN IF ~loaded.ok
       THEN [raised |-> TRUE, count |-> 0, file |-> file, tmp |-> tmp]
       ELSE update(loaded.data, Len(SelectSeq(all_filings(loaded.data), hit)))

\* FilingStatusManager.mark_filings_as_pending(pdf_urls)
mark_filings_as_pending(file, tmp, pdf_urls, fault) ==
    LET loaded == load_congress_data(file)
        hit(filing) == /\ \E i \in 1..Len(pdf_urls) : pdf_urls[i] = filing.pdf_link
                       /\ dict_get(filing, "processing_status", None) = None
        mark(filing) == IF hit(filing)
                        THEN dict_set(dict_set(filing, "processing_status", "pending"),
                                      "status_updated", Timestamp)
                        ELSE filing
        marked(members) ==
            [i \in 1..Len(members) |->
                [members[i] EXCEPT !.filings = [j \in 1..Len(@) |-> mark(@[j])]]]
        done(saved, updated_count) ==
            [raised |-> saved.raised, count |-> updated_count, file |-> saved.file,
             tmp |-> saved.tmp]
        update(congress_data, updated_count) ==
            IF updated_count > 0
            THEN done(save_congress_data(
                          file, tmp,
                          dict_set(congress_data, "members", marked(congress_data.members)),
                          fault),
                      updated_count)
            ELSE [raised |-> FALSE, count |-> 0, file |-> file, tmp |-> tmp]
    IN IF ~loaded.ok
       THEN [raised |-> TRUE, count |-> 0, file |-> file, tmp |-> tmp]
       ELSE update(loaded.data, Len(SelectSeq(all_filings(loaded.data), hit)))

(***************************************************************************)
(* DataManager: the operations on both stores.                             *)
(***************************************************************************)
\* the queue without the entries of pdf_url
without_url(pending_processing, pdf_url) ==
    LET other(item) == item.pdf_url # pdf_url
    IN SelectSeq(pending_processing, other)

\* bool(result): a dict is true when it has a key
truthy(result) == DOMAIN result # {}

\* bool(d.get(k)) for a string value: the key is there and its string is not empty
truthy_key(d, k) == k \in DOMAIN d /\ d[k] # <<>>

\* mark_filing_processed giving up, with nothing written, when no filing has the link.
mark_filing_processed_found_only(cfile, tfile, tmp, pdf_url, result, fault_c, fault_t) ==
    LET tloaded == load_trading_data(tfile)
        cloaded == load_congress_data(cfile)
        mark(filing) ==
            LET f1 == dict_set(dict_set(filing, "processing_status", "processed"),
                               "processed_at", Timestamp)
            IN IF truthy(result) /\ ~truthy_key(result, "error")
               THEN dict_set(f1, "has_stock_transactions",
                             dict_get(result, "transaction_count", 0) > 0)
               ELSE f1
        filing_no == pdf_id_of(pdf_url)
        ledger(trading_data) ==
            dict_set(dict_set(trading_data, "pending_processing",
                              without_url(trading_data.pending_processing, pdf_url)),
                     "processed_filings",
                     IF truthy(result)
                     THEN dict_set(trading_data.processed_filings, filing_no, result)
                     ELSE trading_data.processed_filings)
        \* save_congress_data(congress_data) when a filing was found, then
        \* save_trading_data(trading_data)
        save_ledger(csaved, trading_data) ==
            LET done(tsaved) == [raised |-> tsaved.raised, cfile |-> csaved.file,
                                 tfile |-> tsaved.file, tmp |-> tsaved.tmp]
            IN IF csaved.raised
               THEN [raised |-> TRUE, cfile |-> csaved.file, tfile |-> tfile,
                     tmp |-> csaved.tmp]
               ELSE done(save_trading_data(tfile, csaved.tmp, ledger(trading_data), fault_t))
        save_both(trading_data, congress_data, at) ==
            IF at = <<0, 0>>
            THEN [raised |-> FALSE, cfile |-> cfile, tfile |-> tfile, tmp |-> tmp]
            ELSE
            save_ledger(IF at # <<0, 0>>
                        THEN save_congress_data(
                                 cfile, tmp,
                                 dict_set(congress_data, "members",
                                          set_filing(congress_data.members, at,
                                                     mark(filing_at(congress_data.members,
                                                                    at)))),
                                 fault_c)
                        ELSE [raised |-> FALSE, file |-> cfile, tmp |-> tmp],
                        trading_data)
    IN IF ~tloaded.ok \/ ~cloaded.ok
       THEN [raised |-> TRUE, cfile |-> cfile, tfile |-> tfile, tmp |-> tmp]
       ELSE save_both(tloaded.data, cloaded.data,
                      locate(cloaded.data.members, "pdf_link", pdf_url))

\* DataManager.mark_filing_processed(pdf_url, result).  fault_c and fault_t are
\* what the registry write and the ledger write meet.
mark_filing_processed(cfile, tfile, tmp, pdf_url, result, fault_c, fault_t) ==
    LET mark(filing) ==
            LET f1 == dict_set(dict_set(filing, "processing_status", "processed"),
                               "processed_at", Timestamp)
            IN IF truthy(result) /\ ~truthy_key(result, "error")
               THEN dict_set(f1, "has_stock_transactions",
                             dict_get(result, "transaction_count", 0) > 0)
               ELSE f1
        filing_no == pdf_id_of(pdf_url)
        ledger(trading_data) ==
            dict_set(dict_set(trading_data, "pending_processing",
                              without_url(trading_data.pending_processing, pdf_url)),
                     "processed_filings",
                     IF truthy(result)
                     THEN dict_set(trading_data.processed_filings, filing_no, result)
                     ELSE trading_data.processed_filings)
        \* save_congress_data(congress_data) when a filing was found, then
        \* save_trading_data(trading_data)
        save_ledger(csaved, trading_data) ==
            LET done(tsaved) == [raised |-> tsaved.raised, cfile |-> csaved.file,
                                 tfile |-> tsaved.file, tmp |-> tsaved.tmp]
            IN IF csaved.raised
               THEN [raised |-> TRUE, cfile |-> csaved.file, tfile |-> tfile,
                     tmp |-> csaved.tmp]
               ELSE CHOOSE saved \in {done(tsaved) : tsaved \in
                                {save_trading_data(tfile, csaved.tmp, ledger(trading_data),
                                                   fault_t)}} : TRUE
        save_both(trading_data, congress_data, at) ==
            CHOOSE saved \in {save_ledger(csaved, trading_data) : csaved \in
                {IF at # <<0, 0>>
                 THEN save_congress_data(
                          cfile, tmp,
                          dict_set(congress_data, "members",
                                   set_filing(congress_data.members, at,
                                              mark(filing_at(congress_data.members, at)))),
                          fault_c)
                 ELSE [raised |-> FALSE, file |-> cfile, tmp |-> tmp]}} : TRUE
        marked(tloaded, cloaded) ==
            IF ~tloaded.ok \/ ~cloaded.ok
            THEN [raised |-> TRUE, cfile |-> cfile, tfile |-> tfile, tmp |-> tmp]
            ELSE CHOOSE saved \in {save_both(tloaded.data, cloaded.data, at) : at \in
                     {locate(cloaded.data.members, "pdf_link", pdf_url)}} : TRUE
    IN CHOOSE r \in {marked(tloaded, cloaded) : tloaded \in {load_trading_data(tfile)},
                                                cloaded \in {load_congress_data(cfile)}} : TRUE

\* mark_filing_error taking the branch of a permanent error whatever is_permanent says.
mark_filing_error_as_permanent(cfile, tfile, tmp, pdf_url, error_message, is_permanent, fault_c, fault_t) ==
    LET tloaded == load_trading_data(tfile)
        cloaded == load_congress_data(cfile)
        mark(filing) == dict_set(dict_set(dict_set(filing, "processing_status", "failed"),
                                          "failed_at", Timestamp),
                                 "error", error_message)
        ledger(trading_data) ==
            dict_set(dict_set(trading_data, "pending_processing",
                              without_url(trading_data.pending_processing, pdf_url)),
                     "processed_filings",
                     dict_set(trading_data.processed_filings, pdf_url,
                              [processed_at |-> Timestamp,
                               result |-> [error |-> error_message, permanent |-> TRUE]]))
        save_ledger(csaved, trading_data) ==
            LET done(tsaved) == [raised |-> tsaved.raised, cfile |-> csaved.file,
                                 tfile |-> tsaved.file, tmp |-> tsaved.tmp]
            IN IF csaved.raised
               THEN [raised |-> TRUE, cfile |-> csaved.file, tfile |-> tfile,
                     tmp |-> csaved.tmp]
               ELSE done(save_trading_data(tfile, csaved.tmp, trading_data, fault_t))
        permanent(trading_data, congress_data, at) ==
            save_ledger(IF at # <<0, 0>>
                        THEN save_congress_data(
                                 cfile, tmp,
                                 dict_set(congress_data, "members",
                                          set_filing(congress_data.members, at,
                                                     mark(filing_at(congress_data.members,
                                                                    at)))),
                                 fault_c)
                        ELSE [raised |-> FALSE, file |-> cfile, tmp |-> tmp],
                        ledger(trading_data))
    IN IF ~tloaded.ok \/ ~cloaded.ok
       THEN [raised |-> TRUE, cfile |-> cfile, tfile |-> tfile, tmp |-> tmp]
       ELSE permanent(tloaded.data, cloaded.data,
                      locate(cloaded.data.members, "pdf_link", pdf_url))

\* DataManager.mark_filing_error(pdf_url, error_message, is_permanent)
mark_filing_error(cfile, tfile, tmp, pdf_url, error_message, is_permanent, fault_c, fault_t) ==
    LET mark(filing) == dict_set(dict_set(dict_set(filing, "processing_status", "failed"),
                                          "failed_at", Timestamp),
                                 "error", error_message)
        ledger(trading_data) ==
            dict_set(dict_set(trading_data, "pending_processing",
                              without_url(trading_data.pending_processing, pdf_url)),
                     "processed_filings",
                     dict_set(trading_data.processed_filings, pdf_url,
                              [processed_at |-> Timestamp,
                               result |-> [error |-> error_message, permanent |-> TRUE]]))
        save_ledger(csaved, trading_data) ==
            LET done(tsaved) == [raised |-> tsaved.raised, cfile |-> csaved.file,
                                 tfile |-> tsaved.file, tmp |-> tsaved.tmp]
            IN IF csaved.raised
               THEN [raised |-> TRUE, cfile |-> csaved.file, tfile |-> tfile,
                     tmp |-> csaved.tmp]
               ELSE CHOOSE saved \in {done(tsaved) : tsaved \in
                                {save_trading_data(tfile, csaved.tmp, trading_data,
                                                   fault_t)}} : TRUE
        \* if is_permanent: the queue, the error result, the registry
        permanent(trading_data, congress_data, at) ==
            CHOOSE saved \in {save_ledger(csaved, ledger(trading_data)) : csaved \in
                {IF at # <<0, 0>>
                 THEN save_congress_data(
                          cfile, tmp,
                          dict_set(congress_data, "members",
                                   set_filing(congress_data.members, at,
                                              mark(filing_at(congress_data.members, at)))),
                          fault_c)
                 ELSE [raised |-> FALSE, file |-> cfile, tmp |-> tmp]}} : TRUE
        marked(tloaded, cloaded) ==
            IF ~tloaded.ok \/ (is_permanent /\ ~cloaded.ok)
            THEN [raised |-> TRUE, cfile |-> cfile, tfile |-> tfile, tmp |-> tmp]
            ELSE IF is_permanent
            THEN CHOOSE saved \in {permanent(tloaded.data, cloaded.data, at) : at \in
                     {locate(cloaded.data.members, "pdf_link", pdf_url)}} : TRUE
            ELSE save_ledger([raised |-> FALSE, file |-> cfile, tmp |-> tmp], tloaded.data)
    IN CHOOSE r \in {marked(tloaded, cloaded) : tloaded \in {load_trading_data(tfile)},
                                                cloaded \in {load_congress_data(cfile)}} : TRUE

\* add_pending_filing without its look at the queue: the entry is always appended.
add_pending_filing_unchecked(tfile, tmp, filing_info, fault) ==
    LET tloaded == load_trading_data(tfile)
        done(saved) == [raised |-> saved.raised, ret |-> ~saved.raised, tfile |-> saved.file,
                        tmp |-> saved.tmp]
        admit(trading_data, queue) ==
            done(save_trading_data(
                     tfile, tmp,
                     dict_set(trading_data, "pending_processing",
                              Append(queue, dict_set(filing_info, "discovered_at", Timestamp))),
                     fault))
    IN IF ~tloaded.ok
       THEN [raised |-> TRUE, ret |-> FALSE, tfile |-> tfile, tmp |-> tmp]
       ELSE admit(tloaded.data, tloaded.data.pending_processing)

\* add_pending_filing looking for the whole entry in the queue, not for its link.
add_pending_filing_by_entry(tfile, tmp, filing_info, fault) ==
    LET tloaded == load_trading_data(tfile)
        done(saved) == [raised |-> saved.raised, ret |-> ~saved.raised, tfile |-> saved.file,
                        tmp |-> saved.tmp]
        entry == dict_set(filing_info, "discovered_at", Timestamp)
        admit(trading_data, queue) ==
            IF \E i \in 1..Len(queue) : queue[i] = entry
            THEN [raised |-> FALSE, ret |-> FALSE, tfile |-> tfile, tmp |-> tmp]
            ELSE done(save_trading_data(
                          tfile, tmp,
                          dict_set(trading_data, "pending_processing", Append(queue, entry)),
                          fault))
    IN IF ~tloaded.ok
       THEN [raised |-> TRUE, ret |-> FALSE, tfile |-> tfile, tmp |-> tmp]
       ELSE admit(tloaded.data, tloaded.data.pending_processing)

\* DataManager.add_pending_filing(filing_info): ret is the value returned
add_pending_filing(tfile, tmp, filing_info, fault) ==
    LET tloaded == load_trading_data(tfile)
        done(saved) == [raised |-> saved.raised, ret |-> ~saved.raised, tfile |-> saved.file,
                        tmp |-> saved.tmp]
        admit(trading_data, queue) ==
            IF filing_info.pdf_url \in {queue[i].pdf_url : i \in 1..Len(queue)}
            THEN [raised |-> FALSE, ret |-> FALSE, tfile |-> tfile, tmp |-> tmp]
            ELSE done(save_trading_data(
                          tfile, tmp,
                          dict_set(trading_data, "pending_processing",
                                   Append(queue,
                                          dict_set(filing_info, "discovered_at", Timestamp))),
                          fault))
    IN IF ~tloaded.ok
       THEN [raised |-> TRUE, ret |-> FALSE, tfile |-> tfile, tmp |-> tmp]
       ELSE admit(tloaded.data, tloaded.data.pending_processing)

(***************************************************************************)
(* DailyRun: the pipeline.                                                 *)
(***************************************************************************)
MaxBatch == 2

\* the values MAX_FILES_PER_RUN of the environment may have
max_files_per_run_values == 1..MaxBatch

permanent_patterns ==
    << <<"c","o","r","r","u","p","t","e","d">>,
       <<"i","n","v","a","l","i","d"," ","f","o","r","m","a","t">>,
       <<"u","n","s","u","p","p","o","r","t","e","d">>,
       <<"m","a","l","f","o","r","m","e","d">>,
       <<"n","o"," ","t","r","a","n","s","a","c","t","i","o","n","s"," ","f","o","u","n","d">>,
       <<"f","i","l","e"," ","n","o","t"," ","f","o","u","n","d">>,
       <<"a","c","c","e","s","s"," ","d","e","n","i","e","d">>,
       <<"i","n","v","a","l","i","d"," ","p","d","f">>,
       <<"p","e","r","m","i","s","s","i","o","n"," ","d","e","n","i","e","d">> >>

\* the classifier looking for the keywords in the message as it is written
_is_permanent_error_as_written(error_message) ==
    \E i \in 1..Len(permanent_patterns) : str_contains(error_message, permanent_patterns[i])

_is_permanent_error(error_message) ==
    LET error_lower == str_lower(error_message)
    IN \E i \in 1..Len(permanent_patterns) : str_contains(error_lower, permanent_patterns[i])

MsgTimeout == <<"t","i","m","e","o","u","t">>
MsgNotFound == <<"F","i","l","e"," ","N","o","t"," ","F","o","u","n","d">>
MsgDownload == <<"F","a","i","l","e","d"," ","t","o"," ","d","o","w","n","l","o","a","d"," ","P","D","F">>
Messages == {MsgTimeout, MsgNotFound}

\* the classes of the errors requests.get raises in download_pdf
ReadTimeout == <<"R","e","a","d","T","i","m","e","o","u","t">>
HTTPError == <<"H","T","T","P","E","r","r","o","r">>

\* str(e) of the error download_pdf raises when its three attempts are used up:
\* the retry decorator raises its RetryError, whose text names the class of the
\* last attempt's error and not its message
RetryErrorPrefix ==
    <<"R","e","t","r","y","E","r","r","o","r","[","<","F","u","t","u","r","e"," ","a","t"," ","0","x","1"," ","s","t","a","t","e","=","f","i","n","i","s","h","e","d"," ","r","a","i","s","e","d"," ">>
\* the text the decorator would give were the last error raised again as it is
str_of_download_error_reraised(outcome) == outcome.message

str_of_download_error(outcome) == RetryErrorPrefix \o outcome.error_class \o <<">", "]">>

\* What one item of the batch meets: download_pdf returns a path, returns None or
\* raises once its retries are used up; extract_trading_data returns the
\* transactions it found or an error result.
Outcomes ==
    {[kind |-> "extracted", transactions |-> n] : n \in 0..1}
    \cup {[kind |-> "download_none"]}
    \cup {[kind |-> "download_raises", message |-> MsgTimeout, error_class |-> ReadTimeout],
          [kind |-> "download_raises", message |-> MsgNotFound, error_class |-> HTTPError]}
    \cup {[kind |-> "extract_error", message |-> m] : m \in Messages}

\* the entry _update_trading_database builds from a filing_info
pending_info(filing_info) ==
    [member_name |-> filing_info.member_name, pdf_id |-> filing_info.pdf_id,
     pdf_url |-> filing_info.pdf_url, filing_type |-> filing_info.filing_type,
     year |-> filing_info.year]

RECURSIVE add_pending_filings(_, _, _)
\* _update_trading_database's loop: add_pending_filing for each filing_info in turn
add_pending_filings(tfile, tmp, filing_infos) ==
    LET count(one, rest) == [rest EXCEPT !.added = @ + (IF one.ret THEN 1 ELSE 0)]
        next(one) ==
            IF one.raised
            THEN [raised |-> TRUE, tfile |-> one.tfile, tmp |-> one.tmp, added |-> 0]
            ELSE count(one, add_pending_filings(one.tfile, one.tmp, Tail(filing_infos)))
    IN IF filing_infos = <<>>
       THEN [raised |-> FALSE, tfile |-> tfile, tmp |-> tmp, added |-> 0]
       ELSE CHOOSE rest \in
                {next(one) : one \in {add_pending_filing(tfile, tmp,
                                                         pending_info(Head(filing_infos)),
                                                         "none")}} : TRUE

\* the Processed Result _process_pending_pdfs builds from a successful extraction
processing_result(pdf_url, transactions) ==
    [pdf_url |-> pdf_url, member_info |-> <<>>, stock_transaction_count |-> transactions,
     parsed_at |-> Timestamp, transactions |-> [i \in 1..transactions |-> "transaction"]]


\* What the store writes of one item meet: the registry and ledger writes of the
\* call in the try block (c, t), those of the call in its except handler (hc, ht),
\* and the text of the error a failed write raises.
NoFaults == [c |-> "none", t |-> "none", hc |-> "none", ht |-> "none",
             message |-> MsgTimeout]

\* One pass of a loop without the except handler: what the body raises leaves the loop.
process_item_unhandled(cfile, tfile, tmp, filing_info, outcome, faults) ==
    LET pdf_url == filing_info.pdf_url
        kind == outcome.kind
        \* the extractor's error result, classified in the try block
        is_permanent == kind = "extract_error" /\ _is_permanent_error(outcome.message)
        \* except Exception as e: str(e) of the download's or the store's error
        error_msg == IF kind = "download_raises" THEN str_of_download_error(outcome)
                     ELSE faults.message
        handled(handler, handler_permanent) ==
            [raised |-> handler.raised, cfile |-> handler.cfile, tfile |-> handler.tfile,
             tmp |-> handler.tmp, successful |-> 0,
             failed |-> IF ~handler.raised /\ handler_permanent THEN 1 ELSE 0,
             permanent |-> handler_permanent, store_error |-> kind # "download_raises"]
        tried(body) ==
            IF ~body.raised
            THEN [raised |-> FALSE, cfile |-> body.cfile, tfile |-> body.tfile,
                  tmp |-> body.tmp,
                  successful |-> IF kind = "extracted" THEN 1 ELSE 0,
                  failed |-> IF is_permanent THEN 1 ELSE 0,
                  permanent |-> is_permanent, store_error |-> FALSE]
            ELSE handled(body, _is_permanent_error(error_msg))
    IN tried(CASE kind = "extracted" ->
                     mark_filing_processed(cfile, tfile, tmp, pdf_url,
                                           processing_result(pdf_url, outcome.transactions),
                                           faults.c, faults.t)
               [] kind = "extract_error" ->
                     mark_filing_error(cfile, tfile, tmp, pdf_url, outcome.message,
                                       is_permanent, faults.c, faults.t)
               [] kind = "download_none" ->
                     mark_filing_error(cfile, tfile, tmp, pdf_url, MsgDownload, FALSE,
                                       faults.c, faults.t)
               [] OTHER ->
                     [raised |-> TRUE, cfile |-> cfile, tfile |-> tfile, tmp |-> tmp])

\* One pass of _process_pending_pdfs's loop.  raised: an error left the loop.
process_item(cfile, tfile, tmp, filing_info, outcome, faults) ==
    LET pdf_url == filing_info.pdf_url
        kind == outcome.kind
        \* the extractor's error result, classified in the try block
        is_permanent == kind = "extract_error" /\ _is_permanent_error(outcome.message)
        \* except Exception as e: str(e) of the download's or the store's error
        error_msg == IF kind = "download_raises" THEN str_of_download_error(outcome)
                     ELSE faults.message
        handled(handler, handler_permanent) ==
            [raised |-> handler.raised, cfile |-> handler.cfile, tfile |-> handler.tfile,
             tmp |-> handler.tmp, successful |-> 0,
             failed |-> IF ~handler.raised /\ handler_permanent THEN 1 ELSE 0,
             permanent |-> handler_permanent, store_error |-> kind # "download_raises"]
        tried(body) ==
            IF ~body.raised
            THEN [raised |-> FALSE, cfile |-> body.cfile, tfile |-> body.tfile,
                  tmp |-> body.tmp,
                  successful |-> IF kind = "extracted" THEN 1 ELSE 0,
                  failed |-> IF is_permanent THEN 1 ELSE 0,
                  permanent |-> is_permanent, store_error |-> FALSE]
            ELSE CHOOSE r \in {handled(handler, _is_permanent_error(error_msg)) : handler \in
                     {mark_filing_error(body.cfile, body.tfile, body.tmp, pdf_url,
                                        error_msg, _is_permanent_error(error_msg),
                                        faults.hc, faults.ht)}} : TRUE
    IN CHOOSE r \in {tried(body) : body \in {
             CASE kind = "extracted" ->
                     mark_filing_processed(cfile, tfile, tmp, pdf_url,
                                           processing_result(pdf_url, outcome.transactions),
                                           faults.c, faults.t)
               [] kind = "extract_error" ->
                     mark_filing_error(cfile, tfile, tmp, pdf_url, outcome.message,
                                       is_permanent, faults.c, faults.t)
               [] kind = "download_none" ->
                     mark_filing_error(cfile, tfile, tmp, pdf_url, MsgDownload, FALSE,
                                       faults.c, faults.t)
               [] OTHER ->
                     [raised |-> TRUE, cfile |-> cfile, tfile |-> tfile, tmp |-> tmp]}} : TRUE

(***************************************************************************)
(* State.                                                                  *)
(***************************************************************************)
\* a cleanup that leaves the download directory where it is
cleanup_temp_dir_skipped(temp_dir) == temp_dir

\* TradingDataExtractor.cleanup_temp_dir: the directory, when there is one, is
\* removed with all its files
cleanup_temp_dir(temp_dir) == IF temp_dir = "exists" THEN "removed" ELSE temp_dir

\* DailyRun.run is not running; temp_dir tells what became of the download
\* directory of the last run
Idle(temp_dir) == [pc |-> "idle", temp_dir |-> temp_dir]

\* A registry written before filings carried a processing_status.
LegacyRegistry ==
    [last_updated |-> Old, total_members |-> 1, total_filings |-> 1,
     members |-> << [key |-> get_member_key(RowA.name, RowA.office), name |-> RowA.name,
                     office |-> RowA.office,
                     filings |-> << [pdf_id |-> pdf_id_of(LinkA), year |-> RowA.year,
                                     filing_type |-> RowA.filing_type, pdf_link |-> LinkA,
                                     scraped_date |-> Timestamp] >>] >>]

Init ==
    /\ congress_file = NoFile
    /\ trading_file = NoFile
    /\ tmp_files = <<>>
    /\ run = Idle("none")
    /\ last_call = [op |-> "init"]
    /\ api_calls = 0

aged(file) ==
    IF file.exists /\ file.json = "object" /\ dict_get(file.data, "last_updated", None) = Recent
    THEN ObjectFile(dict_set(file.data, "last_updated", Old))
    ELSE file

\* Twelve hours go by.
TimePasses ==
    /\ run.pc = "idle"
    /\ aged(congress_file) # congress_file \/ aged(trading_file) # trading_file
    /\ congress_file' = aged(congress_file)
    /\ trading_file' = aged(trading_file)
    /\ last_call' = [op |-> "time_passes"]
    /\ UNCHANGED <<tmp_files, run, api_calls>>

Fetches == {[ok |-> TRUE, page |-> p] : p \in ScrapePages} \cup {[ok |-> FALSE]}

file_filings(file) == IF file.exists /\ file.json = "object" THEN all_filings(file.data) ELSE <<>>

\* The scraper run on its own (filing_scraper.main), with or without --force.
UpdateData(force_full_scrape, fetch) ==
    /\ run.pc = "idle"
    /\ \E r \in {update_data(congress_file, force_full_scrape, fetch)} :
          /\ Len(file_filings(r.file)) <= MaxFilings
          /\ congress_file' = r.file
          /\ last_call' = [op |-> "update_data", raised |-> r.raised, scraped |-> r.scraped,
                           current_filings |-> IF r.scraped THEN fetch_filings(fetch.page)
                                               ELSE <<>>]
    /\ UNCHANGED <<trading_file, tmp_files, run, api_calls>>

\* the queue entries a caller may hand to add_pending_filing
Entries ==
    {[member_name |-> row.name, pdf_id |-> pdf_id_of(link_of(row)), pdf_url |-> link_of(row),
      filing_type |-> row.filing_type, year |-> row.year] : row \in Rows}

AddPendingFiling(filing_info) ==
    /\ run.pc = "idle"
    /\ api_calls < MaxApiCalls
    /\ api_calls' = api_calls + 1
    /\ \E r \in {add_pending_filing(trading_file, tmp_files, filing_info, "none")} :
          /\ trading_file' = r.tfile
          /\ tmp_files' = r.tmp
          /\ last_call' = [op |-> "add_pending_filing", filing_info |-> filing_info,
                           raised |-> r.raised, ret |-> r.ret]
    /\ UNCHANGED <<congress_file, run>>

\* the pending queue and the processed results of the ledger a file holds
queue_of(tfile) ==
    IF tfile.exists /\ tfile.json = "object"
    THEN dict_get(tfile.data, "pending_processing", <<>>)
    ELSE <<>>

results_of(tfile) ==
    IF tfile.exists /\ tfile.json = "object"
    THEN dict_get(tfile.data, "processed_filings", <<>>)
    ELSE <<>>

\* the results a caller may hand to mark_filing_processed
Results == {<<>>, [transaction_count |-> 1]}

MarkFilingProcessed(pdf_url, result) ==
    /\ run.pc = "idle"
    /\ api_calls < MaxApiCalls
    /\ api_calls' = api_calls + 1
    /\ \E r \in {mark_filing_processed(congress_file, trading_file, tmp_files, pdf_url,
                                       result, "none", "none")} :
          /\ congress_file' = r.cfile
          /\ trading_file' = r.tfile
          /\ tmp_files' = r.tmp
          /\ last_call' = [op |-> "mark_filing_processed", pdf_url |-> pdf_url,
                           result |-> result, raised |-> r.raised,
                           dequeued |-> Len(queue_of(r.tfile)) < Len(queue_of(trading_file))]
    /\ UNCHANGED run

\* the errors a caller may hand to mark_filing_error
ErrorCalls ==
    {[error_message |-> MsgTimeout, is_permanent |-> FALSE],
     [error_message |-> MsgTimeout, is_permanent |-> TRUE],
     [error_message |-> MsgNotFound, is_permanent |-> TRUE]}

MarkFilingError(pdf_url, error_message, is_permanent) ==
    /\ run.pc = "idle"
    /\ api_calls < MaxApiCalls
    /\ api_calls' = api_calls + 1
    /\ \E r \in {mark_filing_error(congress_file, trading_file, tmp_files, pdf_url,
                                   error_message, is_permanent, "none", "none")} :
          /\ congress_file' = r.cfile
          /\ trading_file' = r.tfile
          /\ tmp_files' = r.tmp
          /\ last_call' = [op |-> "mark_filing_error", pdf_url |-> pdf_url,
                           error_message |-> error_message, is_permanent |-> is_permanent,
                           raised |-> r.raised]
    /\ UNCHANGED run

FilingIds == {pdf_id_of(l) : l \in Links}

UpdateStatus(filing_id, status, error_message) ==
    /\ run.pc = "idle"
    /\ api_calls < MaxApiCalls
    /\ api_calls' = api_calls + 1
    /\ \E r \in {update_status(congress_file, tmp_files, filing_id, status, error_message,
                               "none")} :
          /\ congress_file' = r.file
          /\ tmp_files' = r.tmp
          /\ last_call' = [op |-> "update_status", filing_id |-> filing_id,
                           status |-> status, error_message |-> error_message,
                           raised |-> r.raised,
                           error |-> IF r.raised THEN r.error ELSE None]
    /\ UNCHANGED <<trading_file, run>>

UrlLists == {<<>>, <<LinkA>>, <<LinkB, LinkA>>}

MarkFilingsAsPending(pdf_urls) ==
    /\ run.pc = "idle"
    /\ api_calls < MaxApiCalls
    /\ api_calls' = api_calls + 1
    /\ \E r \in {mark_filings_as_pending(congress_file, tmp_files, pdf_urls, "none")} :
          /\ congress_file' = r.file
          /\ tmp_files' = r.tmp
          /\ last_call' = [op |-> "mark_filings_as_pending", pdf_urls |-> pdf_urls,
                           count |-> r.count]
    /\ UNCHANGED <<trading_file, run>>

(***************************************************************************)
(* DailyRun.run, step by step.                                             *)
(***************************************************************************)
\* Step 1, _run_scraper: update_data unforced; an error it raises is caught.
RunScraper(fetch) ==
    /\ run.pc = "idle"
    /\ \E r \in {update_data(congress_file, FALSE, fetch)} :
          /\ Len(file_filings(r.file)) <= MaxFilings
          /\ congress_file' = r.file
          /\ last_call' = [op |-> "_run_scraper", raised |-> r.raised, scraped |-> r.scraped,
                           current_filings |-> IF r.scraped THEN fetch_filings(fetch.page)
                                               ELSE <<>>]
    /\ run' = [pc |-> "update", temp_dir |-> "none"]
    /\ UNCHANGED <<trading_file, tmp_files, api_calls>>

\* Step 2, _update_trading_database.
RunUpdateTradingDatabase ==
    /\ run.pc = "update"
    /\ \E found \in {identify_pending_filings(congress_file)} :
       \E r \in {add_pending_filings(trading_file, tmp_files, found.filings)} :
          /\ trading_file' = r.tfile
          /\ tmp_files' = r.tmp
          /\ run' = IF found.raised \/ r.raised THEN Idle(run.temp_dir)
                    ELSE [run EXCEPT !.pc = "identify"]
          /\ last_call' = IF found.raised \/ r.raised THEN [op |-> "run", raised |-> TRUE]
                          ELSE [op |-> "_update_trading_database", added |-> r.added]
    /\ UNCHANGED <<congress_file, api_calls>>

\* Step 3 and the head of step 4: identify_pending_filings, the slice of the
\* batch, create_temp_dir.  With nothing pending the run ends here.
RunStartBatch(max_files_per_run) ==
    /\ run.pc = "identify"
    /\ \E found \in {identify_pending_filings(congress_file)} :
          IF found.raised
          THEN /\ run' = Idle(run.temp_dir)
               /\ last_call' = [op |-> "run", raised |-> TRUE]
          ELSE IF found.filings = <<>>
          THEN /\ run' = Idle(run.temp_dir)
               /\ last_call' = [op |-> "run", raised |-> FALSE, attempted |-> 0,
                                processed |-> 0, successful |-> 0, failed |-> 0]
          ELSE /\ run' = [pc |-> "batch", temp_dir |-> "exists",
                          files_to_process |-> take(found.filings, max_files_per_run),
                          max_files_per_run |-> max_files_per_run,
                          done |-> 0, processed |-> 0, successful |-> 0, failed |-> 0]
               /\ last_call' = [op |-> "identify_pending_filings",
                                pending |-> Len(found.filings)]
    /\ UNCHANGED <<congress_file, trading_file, tmp_files, api_calls>>

\* Step 4, one item of the batch.  An error that leaves the loop passes the
\* finally block, which removes the download directory, and ends the run.
RunProcessItem(outcome, faults) ==
    /\ run.pc = "batch"
    /\ run.done < Len(run.files_to_process)
    /\ \E filing_info \in {run.files_to_process[run.done + 1]} :
       \E r \in {process_item(congress_file, trading_file, tmp_files, filing_info, outcome,
                              faults)} :
          /\ congress_file' = r.cfile
          /\ trading_file' = r.tfile
          /\ tmp_files' = r.tmp
          /\ run' = IF r.raised THEN Idle(cleanup_temp_dir(run.temp_dir))
                    ELSE [run EXCEPT !.done = @ + 1,
                                     !.processed = @ + r.successful + r.failed,
                                     !.successful = @ + r.successful,
                                     !.failed = @ + r.failed]
          /\ last_call' = [op |-> "process_item", pdf_url |-> filing_info.pdf_url,
                           outcome |-> outcome.kind,
                           message |-> dict_get(outcome, "message", <<>>),
                           permanent |-> r.permanent,
                           store_error |-> r.store_error, raised |-> r.raised,
                           faulty |-> faults # NoFaults]
    /\ UNCHANGED api_calls

\* The end of step 4: cleanup_temp_dir in the finally block, and the summary.
RunFinish ==
    /\ run.pc = "batch"
    /\ run.done = Len(run.files_to_process)
    /\ run' = Idle(cleanup_temp_dir(run.temp_dir))
    /\ last_call' = [op |-> "run", raised |-> FALSE, attempted |-> run.done,
                     processed |-> run.processed, successful |-> run.successful,
                     failed |-> run.failed]
    /\ UNCHANGED <<congress_file, trading_file, tmp_files, api_calls>>

\* discovery, the passing of time and the steps of DailyRun.run
Pipeline ==
    \/ TimePasses
    \/ \E force \in BOOLEAN, fetch \in Fetches : UpdateData(force, fetch)
    \/ \E fetch \in Fetches : RunScraper(fetch)
    \/ RunUpdateTradingDatabase
    \/ \E max_files_per_run \in max_files_per_run_values : RunStartBatch(max_files_per_run)
    \/ \E outcome \in Outcomes : RunProcessItem(outcome, NoFaults)
    \/ RunFinish

\* The pipeline, with DataManager's queue and marking operations also called
\* directly.
Next ==
    \/ Pipeline
    \/ \E filing_info \in Entries : AddPendingFiling(filing_info)
    \/ \E pdf_url \in Links, result \in Results :
          MarkFilingProcessed(pdf_url, result)
    \/ \E pdf_url \in Links, e \in ErrorCalls :
          MarkFilingError(pdf_url, e.error_message, e.is_permanent)

Spec == Init /\ [][Next]_vars

\* get_status_summary with a filing that has no status counted as pending
RECURSIVE count_statuses_pending_default(_, _)
count_statuses_pending_default(filings, summary) ==
    IF Len(filings) = 0 THEN summary
    ELSE LET status == dict_get(Head(filings), "processing_status", "pending")
         IN count_statuses_pending_default(
                Tail(filings),
                IF status \in DOMAIN summary
                THEN [summary EXCEPT ![status] = @ + 1]
                ELSE [summary EXCEPT !.no_status = @ + 1])

\* the two loops of get_status_summary over the filings of the members
RECURSIVE count_statuses(_, _)
count_statuses(filings, summary) ==
    IF Len(filings) = 0 THEN summary
    ELSE LET status == dict_get(Head(filings), "processing_status", None)
         IN count_statuses(
                Tail(filings),
                IF status \in DOMAIN summary
                THEN [summary EXCEPT ![status] = @ + 1]
                ELSE [summary EXCEPT !.no_status = @ + 1])

get_status_summary(file) ==
    LET loaded == load_congress_data(file)
    IN IF ~loaded.ok THEN [raised |-> TRUE, summary |-> <<>>]
       ELSE [raised |-> FALSE,
             summary |-> count_statuses(all_filings(loaded.data),
                                        [pending |-> 0, processed |-> 0, failed |-> 0,
                                         no_status |-> 0])]

GetStatusSummary ==
    /\ run.pc = "idle"
    /\ \E r \in {get_status_summary(congress_file)} :
          last_call' = [op |-> "get_status_summary", raised |-> r.raised,
                        summary |-> r.summary]
    /\ UNCHANGED <<congress_file, trading_file, tmp_files, run, api_calls>>

\* The pipeline over a registry that may be a legacy one, with
\* FilingStatusManager's status operations also called directly.
InitStatus ==
    /\ congress_file \in {NoFile, ObjectFile(LegacyRegistry)}
    /\ trading_file = NoFile
    /\ tmp_files = <<>>
    /\ run = Idle("none")
    /\ last_call = [op |-> "init"]
    /\ api_calls = 0

NextStatus ==
    \/ Pipeline
    \/ \E filing_id \in FilingIds, status \in FilingStatus, m \in {<<>>, MsgNotFound} :
          UpdateStatus(filing_id, status, m)
    \/ \E pdf_urls \in UrlLists : MarkFilingsAsPending(pdf_urls)
    \/ GetStatusSummary

SpecStatus == InitStatus /\ [][NextStatus]_vars

\* The pipeline alone.
SpecRun == Init /\ [][Pipeline]_vars

\* The steps of DailyRun.run, which a scheduler starts again and again and which
\* run to their end once started.
RunSteps ==
    \/ \E fetch \in Fetches : RunScraper(fetch)
    \/ RunUpdateTradingDatabase
    \/ \E max_files_per_run \in max_files_per_run_values : RunStartBatch(max_files_per_run)
    \/ \E outcome \in Outcomes : RunProcessItem(outcome, NoFaults)
    \/ RunFinish

SpecRunFair == Init /\ [][Pipeline]_vars /\ WF_vars(RunSteps)

(***************************************************************************)
(* delete_filing.py: FilingDeleter.delete_filing. load_data reads the two   *)
(* files as they are and save_data writes them in place; the two backup     *)
(* copies save_data writes beside them are files nothing reads.             *)
(***************************************************************************)
\* del d[k] of a key that is there
dict_del(d, k) == [x \in (DOMAIN d) \ {k} |-> d[x]]

delete_filing(cfile, tfile, pdf_id, dry_run, confirm) ==
    LET same(ret) == [raised |-> FALSE, ret |-> ret, cfile |-> cfile, tfile |-> tfile]
        \* FileNotFoundError and JSONDecodeError of load_data, TypeError,
        \* AttributeError and KeyError of the lookups
        failed == [raised |-> TRUE, ret |-> None, cfile |-> cfile, tfile |-> tfile]
        other(f) == f.pdf_id # pdf_id
        delete(congress_data, trading_data, at) ==
            LET pending_filing_exists ==
                    \E i \in 1..Len(dict_get(trading_data, "pending_processing", <<>>)) :
                        dict_get(trading_data, "pending_processing", <<>>)[i].pdf_id = pdf_id
                filed_transactions_exist ==
                    pdf_id \in DOMAIN dict_get(trading_data, "processed_filings", <<>>)
                \* Remove pending filing if it exists
                t1 == IF pending_filing_exists
                      THEN dict_set(trading_data, "pending_processing",
                                    SelectSeq(trading_data.pending_processing, other))
                      ELSE trading_data
                \* 1. Remove from congress filings: the filings of the member found
                members == [congress_data.members EXCEPT
                               ![at[1]].filings = SelectSeq(@, other)]
                \* 2. if pending_filing_exists: del processed_filings[pdf_id]
                step2_raises ==
                    pending_filing_exists
                    /\ pdf_id \notin DOMAIN dict_get(t1, "processed_filings", <<>>)
                t2 == IF pending_filing_exists
                      THEN dict_set(t1, "processed_filings",
                                    dict_del(t1.processed_filings, pdf_id))
                      ELSE t1
                \* 3. if filed_transactions_exist: del processed_filings[pdf_id]
                step3_raises ==
                    filed_transactions_exist
                    /\ pdf_id \notin DOMAIN dict_get(t2, "processed_filings", <<>>)
                t3 == IF filed_transactions_exist
                      THEN dict_set(t2, "processed_filings",
                                    dict_del(t2.processed_filings, pdf_id))
                      ELSE t2
                \* 4. the count, then save_data: both stamped and written
                c4 == dict_set(dict_set(dict_set(congress_data, "members", members),
                                        "total_filings", count_filings(members)),
                               "last_updated", Recent)
            IN IF dry_run THEN same(TRUE)
               ELSE IF ~confirm THEN same(FALSE)
               ELSE IF step2_raises THEN failed
               ELSE IF step3_raises THEN failed
               ELSE [raised |-> FALSE, ret |-> TRUE, cfile |-> ObjectFile(c4),
                     tfile |-> ObjectFile(dict_set(t3, "last_updated", Recent))]
    IN IF ~cfile.exists \/ ~tfile.exists \/ cfile.json = "invalid" \/ tfile.json = "invalid"
       THEN failed
       ELSE IF cfile.json # "object" \/ "members" \notin DOMAIN cfile.data
       THEN failed
       ELSE IF locate(cfile.data.members, "pdf_id", pdf_id) = <<0, 0>>
       THEN same(FALSE)
       ELSE IF tfile.json # "object"
       THEN failed
       ELSE delete(cfile.data, tfile.data, locate(cfile.data.members, "pdf_id", pdf_id))

\* delete_filing.py --pdf-id, with or without --dry-run; confirm is the answer
\* typed at the prompt.
DeleteFiling(pdf_id, dry_run, confirm) ==
    /\ run.pc = "idle"
    /\ api_calls < MaxApiCalls
    /\ api_calls' = api_calls + 1
    /\ \E r \in {delete_filing(congress_file, trading_file, pdf_id, dry_run, confirm)} :
          /\ congress_file' = r.cfile
          /\ trading_file' = r.tfile
          /\ last_call' = [op |-> "delete_filing", pdf_id |-> pdf_id, dry_run |-> dry_run,
                           confirm |-> confirm, raised |-> r.raised, ret |-> r.ret]
    /\ UNCHANGED <<tmp_files, run>>

\* The pipeline with a filing deleted by hand.
NextDelete ==
    \/ Pipeline
    \/ \E pdf_id \in {pdf_id_of(l) : l \in Links}, dry_run \in BOOLEAN, confirm \in BOOLEAN :
          DeleteFiling(pdf_id, dry_run, confirm)

SpecDelete == Init /\ [][NextDelete]_vars

\* The pipeline with store writes that fail while an item is marked.
MsgNoSpace == <<"N","o"," ","s","p","a","c","e"," ","l","e","f","t">>
MsgPermission == <<"P","e","r","m","i","s","s","i","o","n"," ","d","e","n","i","e","d">>

FaultCases ==
    {f \in [c : {"none", "replace"}, t : {"none", "replace"}, hc : {"none", "replace"},
            ht : {"none", "replace"}, message : {MsgNoSpace, MsgPermission}] :
        f.c # "none" \/ f.t # "none"}

NextCrash ==
    \/ Pipeline
    \/ \E outcome \in Outcomes, faults \in FaultCases : RunProcessItem(outcome, faults)

SpecCrash == Init /\ [][NextCrash]_vars

\* The pipeline with runs cut short between the two writes of an item: the
\* registry is written, the ledger write fails, and the write of the except
\* handler goes through or fails as well, which ends the run.
AbortCases ==
    {f \in FaultCases : f.c = "none" /\ f.t = "replace" /\ f.hc = "none"
                         /\ f.message = MsgNoSpace}

NextAbort ==
    \/ Pipeline
    \/ \E outcome \in Outcomes, faults \in AbortCases : RunProcessItem(outcome, faults)

\* an attempt of the filing with this link that succeeds or fails permanently
AttemptEnds(link) ==
    /\ run.pc = "batch"
    /\ run.done < Len(run.files_to_process)
    /\ run.files_to_process[run.done + 1].pdf_url = link
    /\ \E outcome \in Outcomes :
          /\ \/ outcome.kind = "extracted"
             \/ outcome.kind = "extract_error" /\ _is_permanent_error(outcome.message)
          /\ RunProcessItem(outcome, NoFaults)

\* Runs are repeated for ever, and of the attempts of a filing, if there is no
\* end of them, one succeeds or fails permanently.
SpecAbortFair ==
    /\ Init /\ [][NextAbort]_vars
    /\ WF_vars(RunSteps)
    /\ \A link \in Links : SF_vars(AttemptEnds(link))

(***************************************************************************)
(* The two save operations called on their own, with writes that may fail. *)
(***************************************************************************)
\* registries a caller may hand to save_congress_data; the counters are the
\* caller's and need not match the members
RegistryData ==
    {EmptyRegistry, LegacyRegistry,
     [LegacyRegistry EXCEPT !.total_members = 0, !.total_filings = 2],
     [members |-> <<>>]}

\* ledgers a caller may hand to save_trading_data
LedgerData ==
    {EmptyLedger,
     [EmptyLedger EXCEPT !.pending_processing = << CHOOSE e \in Entries : e.pdf_url = LinkA >>],
     [pending_processing |-> <<>>,
      processed_filings |-> dict_set(<<>>, pdf_id_of(LinkA), [transaction_count |-> 1])]}

SaveCongressData(data, fault) ==
    /\ \E r \in {save_congress_data(congress_file, tmp_files, data, fault)} :
          /\ Len(r.tmp) <= MaxTmp
          /\ congress_file' = r.file
          /\ tmp_files' = r.tmp
          /\ last_call' = [op |-> "save_congress_data", data |-> data, fault |-> fault,
                           raised |-> r.raised]
    /\ UNCHANGED <<trading_file, run, api_calls>>

SaveTradingData(data, fault) ==
    /\ \E r \in {save_trading_data(trading_file, tmp_files, data, fault)} :
          /\ Len(r.tmp) <= MaxTmp
          /\ trading_file' = r.file
          /\ tmp_files' = r.tmp
          /\ last_call' = [op |-> "save_trading_data", data |-> data, fault |-> fault,
                           raised |-> r.raised]
    /\ UNCHANGED <<congress_file, run, api_calls>>

NextWrite ==
    \/ \E data \in RegistryData, fault \in Faults : SaveCongressData(data, fault)
    \/ \E data \in LedgerData, fault \in Faults : SaveTradingData(data, fault)

SpecWrite == Init /\ [][NextWrite]_vars

(***************************************************************************)
(* The store's operations called on their own, over a data directory that  *)
(* may hold a registry written by other hands.                             *)
(***************************************************************************)
LoadCongressData ==
    /\ \E r \in {load_congress_data(congress_file)} :
          last_call' = IF r.ok
                       THEN [op |-> "load_congress_data", raised |-> FALSE,
                             data |-> r.data,
                             total_members |-> r.data.total_members,
                             total_filings |-> r.data.total_filings]
                       ELSE [op |-> "load_congress_data", raised |-> TRUE,
                             error |-> r.error]
    /\ UNCHANGED <<congress_file, trading_file, tmp_files, run, api_calls>>

InitStore ==
    /\ congress_file \in {NoFile} \cup {ObjectFile(data) : data \in RegistryData}
    /\ trading_file = NoFile
    /\ tmp_files = <<>>
    /\ run = Idle("none")
    /\ last_call = [op |-> "init"]
    /\ api_calls = 0

NextStore ==
    \/ LoadCongressData
    \/ \E data \in RegistryData : SaveCongressData(data, "none")
    \/ \E data \in LedgerData : SaveTradingData(data, "none")
    \/ \E pdf_url \in Links, result \in Results : MarkFilingProcessed(pdf_url, result)

SpecStore == InitStore /\ [][NextStore]_vars

(***************************************************************************)
(* The two loads and the pipeline over a data directory whose registry     *)
(* file may be missing, whole, cut short, or JSON of another shape.        *)
(***************************************************************************)
LoadTradingData ==
    /\ \E r \in {load_trading_data(trading_file)} :
          last_call' = IF r.ok
                       THEN [op |-> "load_trading_data", raised |-> FALSE, data |-> r.data]
                       ELSE [op |-> "load_trading_data", raised |-> TRUE, error |-> r.error]
    /\ UNCHANGED <<congress_file, trading_file, tmp_files, run, api_calls>>

InitLoad ==
    /\ congress_file \in {NoFile, ObjectFile(LegacyRegistry), UnparsableFile, ArrayFile,
                          ObjectFile([last_updated |-> Old])}
    /\ trading_file = NoFile
    /\ tmp_files = <<>>
    /\ run = Idle("none")
    /\ last_call = [op |-> "init"]
    /\ api_calls = 0

NextLoad ==
    \/ Pipeline
    \/ LoadCongressData
    \/ LoadTradingData

SpecLoad == InitLoad /\ [][NextLoad]_vars

(***************************************************************************)
(* The permanence classifier on its own, over messages built around the     *)
(* keywords and around texts that hold none.                               *)
(***************************************************************************)
\* s.upper(), inverse of the letters of UpperToLower
str_upper(s) ==
    [i \in 1..Len(s) |->
        IF \E c \in DOMAIN UpperToLower : UpperToLower[c] = s[i]
        THEN CHOOSE c \in DOMAIN UpperToLower : UpperToLower[c] = s[i]
        ELSE s[i]]

\* the keyword with its first letter a capital
str_capitalize(s) == str_upper(SubSeq(s, 1, 1)) \o SubSeq(s, 2, Len(s))

\* what stands before and after a keyword in a message
Before == {<<>>, <<"E","r","r","o","r",":"," ">>}
After == {<<>>, <<" ","(","4","0","4",")">>}

\* texts that hold no keyword: near misses of the keywords among them
NoKeywordTexts ==
    {MsgTimeout, MsgDownload, <<>>,
     <<"f","i","l","e"," ","f","o","u","n","d">>,
     <<"n","o","t"," ","f","o","u","n","d">>,
     <<"f","i","l","e","n","o","t","f","o","u","n","d">>,
     <<"f","i","l","e"," "," ","n","o","t"," ","f","o","u","n","d">>,
     <<"c","o","r","r","u","p","t">>,
     <<"i","n","v","a","l","i","d">>,
     <<"i","n","v","a","l","i","d"," "," ","f","o","r","m","a","t">>,
     <<"a","c","c","e","s","s"," ","g","r","a","n","t","e","d">>,
     <<"d","e","n","i","e","d">>,
     <<"n","o"," ","t","r","a","n","s","a","c","t","i","o","n","s">>,
     <<"u","n","s","u","p","p","o","r","t">>,
     <<"m","a","l","f","o","r","m">>,
     <<"i","n","v","a","l","i","d"," ","p","d">>,
     <<"p","e","r","m","i","s","s","i","o","n">>}

\* messages, each with whether a keyword stands in it
ClassifierInputs ==
    {[text |-> b \o cased \o a, holds_keyword |-> TRUE] :
        b \in Before, a \in After,
        cased \in UNION {{permanent_patterns[i], str_upper(permanent_patterns[i]),
                          str_capitalize(permanent_patterns[i])} :
                            i \in 1..Len(permanent_patterns)}}
    \cup {[text |-> b \o t \o a, holds_keyword |-> FALSE] :
             b \in Before, a \in After, t \in NoKeywordTexts}
    \cup {[text |-> MsgNotFound, holds_keyword |-> TRUE]}

IsPermanentError(input) ==
    /\ last_call' = [op |-> "_is_permanent_error", error_message |-> input.text,
                     holds_keyword |-> input.holds_keyword,
                     ret |-> _is_permanent_error(input.text)]
    /\ UNCHANGED <<congress_file, trading_file, tmp_files, run, api_calls>>

NextClassify == \E input \in ClassifierInputs : IsPermanentError(input)

SpecClassify == Init /\ [][NextClassify]_vars

(***************************************************************************)
(* The amount of a transaction line, over lines built around the bounds of *)
(* the ranges.  A line and an amount string are sequences of characters.   *)
(***************************************************************************)
Digits == <<"0", "1", "2", "3", "4", "5", "6", "7", "8", "9">>

AMOUNT_RANGES ==
    <<
       <<15000,
         <<"$","1",",","0","0","1"," ","-"," ","$","1","5",",","0","0","0">>>>,
       <<50000,
         <<"$","1","5",",","0","0","1"," ","-"," ","$","5","0",",","0","0","0">>>>,
       <<100000,
         <<"$","5","0",",","0","0","1"," ","-"," ","$","1","0","0",",","0","0","0">>>>,
       <<250000,
         <<"$","1","0","0",",","0","0","1"," ","-"," ","$","2","5","0",",","0","0","0">>>>,
       <<500000,
         <<"$","2","5","0",",","0","0","1"," ","-"," ","$","5","0","0",",","0","0","0">>>>,
       <<1000000,
         <<"$","5","0","0",",","0","0","1"," ","-"," ","$","1",",","0","0","0",",","0","0","0">>>>,
       <<5000000,
         <<"$","1",",","0","0","0",",","0","0","1"," ","-"," ","$","5",",","0","0","0",",","0","0","0">>>>,
       <<25000000,
         <<"$","5",",","0","0","0",",","0","0","1"," ","-"," ","$","2","5",",","0","0","0",",","0","0","0">>>>,
       <<50000000,
         <<"$","2","5",",","0","0","0",",","0","0","1"," ","-"," ","$","5","0",",","0","0","0",",","0","0","0">>>>,
       <<100000000,
         <<"O","v","e","r"," ","$","5","0",",","0","0","0",",","0","0","0">>>>
    >>

Over == <<"O","v","e","r"," ","$","5","0",",","0","0","0",",","0","0","0">>

\* re.search(r'\$[\d,]+', line).group(0), or the empty sequence when nothing matches
amount_match(line) ==
    LET in_class(c) == c = "," \/ \E d \in DOMAIN Digits : Digits[d] = c
        starts == {i \in 1..(Len(line) - 1) : line[i] = "$" /\ in_class(line[i + 1])}
        upto(i) == CHOOSE j \in (i + 1)..Len(line) :
                       /\ \A k \in (i + 1)..j : in_class(line[k])
                       /\ j = Len(line) \/ ~in_class(line[j + 1])
        from(i) == SubSeq(line, i, upto(i))
    IN IF starts = {} THEN <<>>
       ELSE from(CHOOSE i \in starts : \A k \in starts : i <= k)

\* int(raw) for a sequence of digits; -1 stands for the ValueError of int('')
RECURSIVE int_of(_)
int_of(raw) ==
    IF raw = <<>> THEN -1
    ELSE IF Len(raw) = 1 THEN (CHOOSE d \in DOMAIN Digits : Digits[d] = raw[1]) - 1
    ELSE 10 * int_of(SubSeq(raw, 1, Len(raw) - 1))
         + (CHOOSE d \in DOMAIN Digits : Digits[d] = raw[Len(raw)]) - 1

\* f"{value:,}" with sep = "," and str(value) with sep empty
RECURSIVE format_int(_, _)
format_int(value, sep) ==
    IF value < 10 THEN <<Digits[value + 1]>>
    ELSE IF value < 1000 THEN format_int(value \div 10, sep) \o <<Digits[(value % 10) + 1]>>
    ELSE format_int(value \div 1000, sep) \o sep
         \o <<Digits[((value \div 100) % 10) + 1], Digits[((value \div 10) % 10) + 1],
              Digits[(value % 10) + 1]>>

\* the ranges walked with a strict comparison
_extract_and_categorize_amount_strict(line) ==
    LET pick(amount_value, group0) ==
            IF amount_value < 0 THEN group0
            ELSE IF amount_value < 1000 THEN <<"$">> \o format_int(amount_value, <<",">>)
            ELSE LET hits == {i \in DOMAIN AMOUNT_RANGES :
                                 amount_value < AMOUNT_RANGES[i][1]}
                 IN IF hits = {} THEN Over
                    ELSE AMOUNT_RANGES[CHOOSE i \in hits : \A k \in hits : i <= k][2]
        categorize(group0) ==
            IF group0 = <<>> THEN <<>>
            ELSE pick(int_of(SelectSeq(group0, LAMBDA c : c \notin {"$", ","})), group0)
    IN categorize(amount_match(line))

_extract_and_categorize_amount(line) ==
    LET pick(amount_value, group0) ==
            IF amount_value < 0 THEN group0
            ELSE IF amount_value < 1000 THEN <<"$">> \o format_int(amount_value, <<",">>)
            ELSE LET hits == {i \in DOMAIN AMOUNT_RANGES :
                                 amount_value <= AMOUNT_RANGES[i][1]}
                 IN IF hits = {} THEN Over
                    ELSE AMOUNT_RANGES[CHOOSE i \in hits : \A k \in hits : i <= k][2]
        categorize(group0) ==
            IF group0 = <<>> THEN <<>>
            ELSE pick(int_of(SelectSeq(group0, LAMBDA c : c \notin {"$", ","})), group0)
    IN categorize(amount_match(line))

\* the values around every bound, and small ones
AmountValues ==
    {0, 1, 7, 42, 100, 999, 1000, 1001, 100000002}
    \cup UNION {{AMOUNT_RANGES[i][1] - 1, AMOUNT_RANGES[i][1], AMOUNT_RANGES[i][1] + 1} :
                   i \in DOMAIN AMOUNT_RANGES}

\* lines whose first amount is a given value, written with and without commas,
\* alone or with text before it and a second amount after it, and lines that
\* hold no amount or commas only
AmountLines ==
    {[amount_value |-> v, line |-> b \o <<"$">> \o format_int(v, sep) \o a] :
        v \in AmountValues, sep \in {<<>>, <<",">>},
        b \in {<<>>, <<"P"," ","$"," ">>}, a \in {<<>>, <<" ","$","9">>}}
    \cup {[amount_value |-> -1, line |-> l] :
             l \in {<<>>, <<"P"," ","1","0","0">>, <<"$",",",",">>, <<"$"," ","5">>}}

ExtractAndCategorizeAmount(input) ==
    /\ last_call' = [op |-> "_extract_and_categorize_amount",
                     amount_value |-> input.amount_value, line |-> input.line,
                     ret |-> _extract_and_categorize_amount(input.line)]
    /\ UNCHANGED <<congress_file, trading_file, tmp_files, run, api_calls>>

NextAmount == \E input \in AmountLines : ExtractAndCategorizeAmount(input)

SpecAmount == Init /\ [][NextAmount]_vars

(***************************************************************************)
(* The transactions of a document.  A page is the sequence of the lines of *)
(* its text (text.split('\n')), the empty sequence when it has no text; a  *)
(* line is a sequence of characters.                                       *)
(***************************************************************************)
\* c.isdigit()
is_digit(c) == \E d \in DOMAIN Digits : Digits[d] = c

\* s.find(sub) counted from 1, 0 when sub is not in s
str_find(s, sub) ==
    LET at == {i \in 1..(Len(s) - Len(sub) + 1) : SubSeq(s, i, i + Len(sub) - 1) = sub}
    IN IF at = {} THEN 0 ELSE CHOOSE i \in at : \A k \in at : i <= k

\* the set of places of s where \d{2}/\d{2}/\d{4} matches
date_starts(s) ==
    {i \in 1..(Len(s) - 9) :
        /\ \A k \in {0, 1, 3, 4, 6, 7, 8, 9} : is_digit(s[i + k])
        /\ s[i + 2] = "/" /\ s[i + 5] = "/"}

RECURSIVE _extract_dates(_)
\* re.findall(r'\d{2}/\d{2}/\d{4}', line): matches from the left, none overlapping
_extract_dates(line) ==
    LET at == date_starts(line)
        first(i) == <<SubSeq(line, i, i + 9)>>
                    \o _extract_dates(SubSeq(line, i + 10, Len(line)))
    IN IF at = {} THEN <<>> ELSE first(CHOOSE i \in at : \A k \in at : i <= k)

_is_transaction_line(line) ==
    /\ str_contains(line, <<"P", " ">>) \/ str_contains(line, <<"S", " ">>)
    /\ str_contains(line, <<"$">>)
    /\ \E i \in 1..Len(line) : is_digit(line[i])

StockMarker == <<"[", "S", "T", "]">>

\* every candidate line taken for a stock transaction
_is_stock_transaction_unmarked(line, context_lines) == TRUE

_is_stock_transaction(line, context_lines) ==
    \/ str_contains(line, StockMarker)
    \/ \E k \in 1..Len(context_lines) : str_contains(context_lines[k], StockMarker)

\* the lines around the current one as well: start = max(0, index - context)
_get_context_lines_around(lines, index) ==
    SubSeq(lines, IF index - 2 < 1 THEN 1 ELSE index - 2,
           IF Len(lines) < index + 2 THEN Len(lines) ELSE index + 2)

\* lines[index : min(len(lines), index + 3)], index counted from 1
_get_context_lines(lines, index) ==
    SubSeq(lines, index, IF Len(lines) < index + 2 THEN Len(lines) ELSE index + 2)

OWNER_CODES ==
    [c \in {<<"S","P">>, <<"D","C">>, <<"J","T">>} |->
        CASE c = <<"S","P">> -> "Spouse"
          [] c = <<"D","C">> -> "Dependent Child"
          [] c = <<"J","T">> -> "Joint"]

\* re.match(r'^(SP|DC|JT)\s+(.+)', line): the code and the rest of the line;
\* \s+ gives back its last blank when nothing else is left for (.+)
_extract_owner_code(line) ==
    LET blanks == {n \in 1..(Len(line) - 2) : \A k \in 3..(2 + n) : line[k] = " "}
        most == CHOOSE n \in blanks : \A k \in blanks : k <= n
        rest(n) == SubSeq(line, (IF 2 + n = Len(line) THEN 2 + n ELSE 3 + n), Len(line))
    IN IF Len(line) >= 4 /\ SubSeq(line, 1, 2) \in DOMAIN OWNER_CODES /\ line[3] = " "
       THEN <<SubSeq(line, 1, 2), rest(most)>>
       ELSE <<<<>>, line>>

_get_transaction_type(line) ==
    IF str_contains(line, <<" ", "P", " ">>) THEN "Purchase"
    ELSE IF str_contains(line, <<" ", "S", " ">>) THEN "Sale"
    ELSE "Unknown"

RECURSIVE str_collapse(_)
\* re.sub(r'\s+', ' ', s): every run of blanks becomes one blank
str_collapse(s) ==
    IF Len(s) < 2 THEN s
    ELSE IF s[1] = " " /\ s[2] = " " THEN str_collapse(Tail(s))
    ELSE <<Head(s)>> \o str_collapse(Tail(s))

\* every character outside [\w\s\.\-&(),] becomes a blank, runs of blanks become
\* one and the ends are stripped; no bracket is left for the last substitution
_clean_asset_name(asset_name) ==
    LET kept(c) == \/ c \in DOMAIN UpperToLower
                   \/ \E u \in DOMAIN UpperToLower : UpperToLower[u] = c
                   \/ is_digit(c)
                   \/ c \in {"_", " ", ".", "-", "&", "(", ")", ","}
    IN str_strip(str_collapse([i \in 1..Len(asset_name) |->
                                  IF kept(asset_name[i]) THEN asset_name[i] ELSE " "]))

\* re.search(r'\(([A-Z0-9.]+)\)', s): where it starts and its group, start 0 for
\* no match
ticker_search(s) ==
    LET in_class(c) == c \in DOMAIN UpperToLower \/ is_digit(c) \/ c = "."
        close(i) == {j \in (i + 2)..Len(s) :
                        s[j] = ")" /\ \A k \in (i + 1)..(j - 1) : in_class(s[k])}
        at == {i \in 1..Len(s) : s[i] = "(" /\ close(i) # {}}
        found(i) == [start |-> i,
                     ticker |-> SubSeq(s, i + 1, (CHOOSE j \in close(i) : TRUE) - 1)]
    IN IF at = {} THEN [start |-> 0, ticker |-> <<>>]
       ELSE found(CHOOSE i \in at : \A k \in at : i <= k)

\* the part of an overflow line before the first of the cutoff patterns that
\* matches it: a date, $ and a digit, $ blanks digit, - blanks $
cut_overflow(line_text) ==
    LET least(S) == IF S = {} THEN 0 ELSE CHOOSE i \in S : \A k \in S : i <= k
        gap(i, digit) ==
            \E j \in (i + 1)..Len(line_text) :
                /\ \A k \in (i + 1)..(j - 1) : line_text[k] = " "
                /\ IF digit THEN is_digit(line_text[j]) ELSE line_text[j] = "$"
        starts == << least(date_starts(line_text)),
                     least({i \in 1..(Len(line_text) - 1) :
                               line_text[i] = "$" /\ is_digit(line_text[i + 1])}),
                     least({i \in 1..Len(line_text) :
                               line_text[i] = "$" /\ gap(i, TRUE)}),
                     least({i \in 1..Len(line_text) :
                               line_text[i] = "-" /\ gap(i, FALSE)}) >>
        hits == {p \in 1..4 : starts[p] # 0}
    IN IF hits = {} THEN line_text
       ELSE SubSeq(line_text, 1, starts[CHOOSE p \in hits : \A k \in hits : p <= k] - 1)

\* ' '.join(parts)
RECURSIVE str_join(_)
str_join(parts) ==
    IF parts = <<>> THEN <<>>
    ELSE IF Len(parts) = 1 THEN parts[1]
    ELSE parts[1] \o <<" ">> \o str_join(Tail(parts))

_extract_asset_info(line, context_lines) ==
    LET with == {i \in 1..Len(context_lines) : ticker_search(context_lines[i]).start # 0}
        cut_first(line_text) ==
            IF str_find(line_text, <<"P", " ">>) # 0
            THEN SubSeq(line_text, 1, str_find(line_text, <<"P", " ">>) - 1)
            ELSE IF str_find(line_text, <<"S", " ">>) # 0
            THEN SubSeq(line_text, 1, str_find(line_text, <<"S", " ">>) - 1)
            ELSE line_text
        asset(ticker_line_index, m) ==
            str_join([j \in 1..ticker_line_index |->
                         IF j = ticker_line_index
                         \* what stands before the blanks before "(ticker)"
                         THEN str_strip(SubSeq(context_lines[j], 1, m.start - 1))
                         ELSE IF j = 1 THEN str_strip(cut_first(context_lines[j]))
                         ELSE str_strip(cut_overflow(context_lines[j]))])
        info(ticker_line_index) ==
            [ticker |-> ticker_search(context_lines[ticker_line_index]).ticker,
             asset_name |-> _clean_asset_name(
                                asset(ticker_line_index,
                                      ticker_search(context_lines[ticker_line_index])))]
    IN IF with = {} THEN [ticker |-> <<>>, asset_name |-> <<>>]
       ELSE info(CHOOSE i \in with : \A k \in with : i <= k)

\* a candidate line whose amount is missing is emitted all the same
_parse_transaction_line_any_amount(line, context_lines) ==
    LET build(owner, info, dates, amount) ==
            IF info.asset_name = <<>> \/ Len(dates) < 2 THEN <<>>
            ELSE << [asset |-> str_strip(info.asset_name),
                     ticker |-> info.ticker,
                     owner |-> IF owner[1] \in DOMAIN OWNER_CODES
                               THEN OWNER_CODES[owner[1]] ELSE "Self",
                     owner_code |-> owner[1],
                     transaction_type |-> _get_transaction_type(line),
                     transaction_date |-> dates[1],
                     notification_date |-> dates[2],
                     amount |-> amount] >>
    IN build(_extract_owner_code(line), _extract_asset_info(line, context_lines),
             _extract_dates(line), _extract_and_categorize_amount(line))

\* the transaction of a candidate line as a sequence of one element, the empty
\* sequence for None
_parse_transaction_line(line, context_lines) ==
    LET build(owner, info, dates, amount) ==
            IF info.asset_name = <<>> \/ Len(dates) < 2 \/ amount = <<>> THEN <<>>
            ELSE << [asset |-> str_strip(info.asset_name),
                     ticker |-> info.ticker,
                     owner |-> IF owner[1] \in DOMAIN OWNER_CODES
                               THEN OWNER_CODES[owner[1]] ELSE "Self",
                     owner_code |-> owner[1],
                     transaction_type |-> _get_transaction_type(line),
                     transaction_date |-> dates[1],
                     notification_date |-> dates[2],
                     amount |-> amount] >>
    IN build(_extract_owner_code(line), _extract_asset_info(line, context_lines),
             _extract_dates(line), _extract_and_categorize_amount(line))

\* the places of the lines for which the loop appends a transaction
emitting_lines(lines) ==
    {i \in 1..Len(lines) :
        /\ _is_transaction_line(lines[i])
        /\ _is_stock_transaction(lines[i], _get_context_lines(lines, i))
        /\ _parse_transaction_line(lines[i], _get_context_lines(lines, i)) # <<>>}

RECURSIVE in_order(_)
\* a set of numbers as the ascending sequence
in_order(S) ==
    IF S = {} THEN <<>>
    ELSE LET least == CHOOSE i \in S : \A k \in S : i <= k
         IN <<least>> \o in_order(S \ {least})

_extract_transactions_from_lines(lines) ==
    LET at == in_order(emitting_lines(lines))
    IN [k \in 1..Len(at) |->
           _parse_transaction_line(lines[at[k]], _get_context_lines(lines, at[k]))[1]]

\* a page without text is skipped and gives nothing, as a page without lines
_extract_all_transactions(pages) ==
    Flatten([p \in 1..Len(pages) |-> _extract_transactions_from_lines(pages[p])])

(***************************************************************************)
(* Documents of one or two pages, built from lines with and without owner  *)
(* code, marker, ticker, second date and amount.                           *)
(***************************************************************************)
PageLines ==
    {\* Filing ID #1
     <<"F","i","l","i","n","g"," ","I","D"," ","#","1">>,
     \* AAPL Inc (AAPL) P 01/02/2024 01/05/2024 $15,000
     <<"A","A","P","L"," ","I","n","c"," ","(","A","A","P","L",")"," ","P"," ","0","1","/","0","2","/","2","0","2","4"," ","0","1","/","0","5","/","2","0","2","4"," ","$","1","5",",","0","0","0">>,
     \* AAPL Inc (AAPL) [ST] P 01/02/2024 01/05/2024 $15,000
     <<"A","A","P","L"," ","I","n","c"," ","(","A","A","P","L",")"," ","[","S","T","]"," ","P"," ","0","1","/","0","2","/","2","0","2","4"," ","0","1","/","0","5","/","2","0","2","4"," ","$","1","5",",","0","0","0">>,
     \* SP Apple Inc (AAPL) [ST] S 01/02/2024 01/05/2024 $999
     <<"S","P"," ","A","p","p","l","e"," ","I","n","c"," ","(","A","A","P","L",")"," ","[","S","T","]"," ","S"," ","0","1","/","0","2","/","2","0","2","4"," ","0","1","/","0","5","/","2","0","2","4"," ","$","9","9","9">>,
     \* DC Fund (VTI) [ST] P 01/02/2024 01/05/2024 $15,001
     <<"D","C"," ","F","u","n","d"," ","(","V","T","I",")"," ","[","S","T","]"," ","P"," ","0","1","/","0","2","/","2","0","2","4"," ","0","1","/","0","5","/","2","0","2","4"," ","$","1","5",",","0","0","1">>,
     \* JT Bond P 01/02/2024 01/05/2024 $50,000
     <<"J","T"," ","B","o","n","d"," ","P"," ","0","1","/","0","2","/","2","0","2","4"," ","0","1","/","0","5","/","2","0","2","4"," ","$","5","0",",","0","0","0">>,
     \* Trust (BND) [ST]
     <<"T","r","u","s","t"," ","(","B","N","D",")"," ","[","S","T","]">>,
     \* Apple (AAPL) [ST] P 01/02/2024 $5
     <<"A","p","p","l","e"," ","(","A","A","P","L",")"," ","[","S","T","]"," ","P"," ","0","1","/","0","2","/","2","0","2","4"," ","$","5">>,
     \* (AAPL) [ST] P 01/02/2024 01/05/2024 $15,000
     <<"(","A","A","P","L",")"," ","[","S","T","]"," ","P"," ","0","1","/","0","2","/","2","0","2","4"," ","0","1","/","0","5","/","2","0","2","4"," ","$","1","5",",","0","0","0">>,
     \* Apple (AAPL) [ST] P 01/02/2024 01/05/2024 $ TBD
     <<"A","p","p","l","e"," ","(","A","A","P","L",")"," ","[","S","T","]"," ","P"," ","0","1","/","0","2","/","2","0","2","4"," ","0","1","/","0","5","/","2","0","2","4"," ","$"," ","T","B","D">>,
     \* [ST]
     <<"[","S","T","]">>}

\* a candidate line without marker, the marker on its own, a line that is neither
WindowLines ==
    {<<"A","A","P","L"," ","I","n","c"," ","(","A","A","P","L",")"," ","P"," ","0","1","/","0","2","/","2","0","2","4"," ","0","1","/","0","5","/","2","0","2","4"," ","$","1","5",",","0","0","0">>,
     <<"[","S","T","]">>,
     <<"F","i","l","i","n","g"," ","I","D"," ","#","1">>}

MaxPageLines == 4

\* the pages of at most n lines taken from L
pages_of(L, n) == UNION {[1..k -> L] : k \in 0..n}

Documents ==
    {<<page>> : page \in pages_of(PageLines, 2) \cup pages_of(WindowLines, MaxPageLines)}
    \cup {<<first, second>> : first, second \in pages_of(PageLines, 1)}
    \cup {<<first, second>> : first, second \in pages_of(WindowLines, 2)}

\* a document is at hand
InitExtract ==
    /\ congress_file = NoFile
    /\ trading_file = NoFile
    /\ tmp_files = <<>>
    /\ run = Idle("none")
    /\ last_call \in {[op |-> "document", pages |-> pages] : pages \in Documents}
    /\ api_calls = 0

ExtractAllTransactions ==
    /\ last_call.op = "document"
    /\ last_call' = [op |-> "_extract_all_transactions", pages |-> last_call.pages,
                     origin |-> [p \in 1..Len(last_call.pages) |->
                                    in_order(emitting_lines(last_call.pages[p]))],
                     ret |-> _extract_all_transactions(last_call.pages)]
    /\ UNCHANGED <<congress_file, trading_file, tmp_files, run, api_calls>>

NextExtract == ExtractAllTransactions

SpecExtract == InitExtract /\ [][NextExtract]_vars

(***************************************************************************)
(* What the properties read from the two files.                            *)
(***************************************************************************)
Terminal == {"processed", "failed"}

status_of(filing) == dict_get(filing, "processing_status", None)

\* the members of the registry a file holds
members_of(cfile) ==
    IF cfile.exists /\ cfile.json = "object" THEN dict_get(cfile.data, "members", <<>>)
    ELSE <<>>

\* the registry's filings with the given link
filings_with(cfile, link) ==
    LET is_link(filing) == filing.pdf_link = link
    IN SelectSeq(file_filings(cfile), is_link)

in_registry(cfile, link) == filings_with(cfile, link) # <<>>

queued(tfile, link) == \E i \in 1..Len(queue_of(tfile)) : queue_of(tfile)[i].pdf_url = link

\* identify_pending_filings() returns a filing with the given link
returned_pending(cfile, link) ==
    \E i \in 1..Len(identify_pending_filings(cfile).filings) :
        identify_pending_filings(cfile).filings[i].pdf_url = link

\* the ledger holds an error result with this message and permanent set
error_recorded(tfile, error_message) ==
    \E k \in DOMAIN results_of(tfile) :
        /\ "result" \in DOMAIN results_of(tfile)[k]
        /\ results_of(tfile)[k].result.error = error_message
        /\ results_of(tfile)[k].result.permanent = TRUE

\* the ledger holds a result for the link, under its document id or the link itself
result_recorded(tfile, link) ==
    pdf_id_of(link) \in DOMAIN results_of(tfile) \/ link \in DOMAIN results_of(tfile)

(***************************************************************************)
(* Properties.                                                             *)
(***************************************************************************)
\* C1: once mark_filing_processed(link, result) has completed, no registry
\* filing with that link is returned by identify_pending_filings() and the
\* pending queue has no entry with that link.
C1_ProcessedLeavesPending ==
    (last_call.op = "mark_filing_processed" /\ ~last_call.raised)
        => /\ ~returned_pending(congress_file, last_call.pdf_url)
           /\ ~queued(trading_file, last_call.pdf_url)

\* C2: a store update of a batch item that is cut short by a failing write
\* leaves the two files either both as they were or both showing the item's
\* outcome: filing terminal, queue entry removed, result recorded.
C2_ItemUpdateAtomic ==
    [][(last_call'.op = "process_item" /\ last_call'.store_error)
          => \/ /\ members_of(congress_file') = members_of(congress_file)
                /\ queue_of(trading_file') = queue_of(trading_file)
                /\ results_of(trading_file') = results_of(trading_file)
             \/ /\ \E i \in 1..Len(filings_with(congress_file', last_call'.pdf_url)) :
                      status_of(filings_with(congress_file', last_call'.pdf_url)[i])
                          \in Terminal
                /\ ~queued(trading_file', last_call'.pdf_url)
                /\ result_recorded(trading_file', last_call'.pdf_url)]_vars

\* C3: no entry of the pending queue has the link of a registry filing whose
\* status is processed or failed.
C3_QueueHoldsNoTerminalFiling ==
    \A i \in 1..Len(queue_of(trading_file)) :
        \A j \in 1..Len(file_filings(congress_file)) :
            file_filings(congress_file)[j].pdf_link = queue_of(trading_file)[i].pdf_url
                => status_of(file_filings(congress_file)[j]) \notin Terminal

\* C4: a save_congress_data or save_trading_data that fails leaves its target
\* file exactly as it was, and a target that changes becomes a complete file
\* written by a save that did not fail.
C4_FailedSaveKeepsTarget ==
    [][/\ (last_call'.op = "save_congress_data" /\ last_call'.raised)
             => congress_file' = congress_file
       /\ (last_call'.op = "save_trading_data" /\ last_call'.raised)
             => trading_file' = trading_file
       /\ congress_file' # congress_file
             => /\ last_call'.op = "save_congress_data" /\ ~last_call'.raised
                /\ congress_file'.exists /\ congress_file'.json = "object"
       /\ trading_file' # trading_file
             => /\ last_call'.op = "save_trading_data" /\ ~last_call'.raised
                /\ trading_file'.exists /\ trading_file'.json = "object"]_vars

C4_FailedSaveOverExistingFile ==
    /\ last_call.op = "save_congress_data" /\ last_call.raised /\ last_call.fault = "dump"
    /\ congress_file.exists

\* C5: a save whose atomic write fails, at whichever step, leaves no temporary
\* file behind in the data directory.
C5_FailedWriteRemovesTemp ==
    [][(last_call'.op \in {"save_congress_data", "save_trading_data"} /\ last_call'.raised)
          => tmp_files' = tmp_files]_vars

\* C6: add_pending_filing for a link already queued returns false and leaves
\* the queue as it is; for a link not queued it returns true and the queue
\* grows by that one entry at its end; and calling it again with the same entry
\* returns false and changes nothing.
C6_AddPendingIdempotent ==
    [][(last_call'.op = "add_pending_filing" /\ ~last_call'.raised)
          => /\ IF queued(trading_file, last_call'.filing_info.pdf_url)
                THEN /\ last_call'.ret = FALSE
                     /\ queue_of(trading_file') = queue_of(trading_file)
                ELSE /\ last_call'.ret = TRUE
                     /\ queue_of(trading_file')
                            = Append(queue_of(trading_file),
                                     dict_set(last_call'.filing_info, "discovered_at",
                                              Timestamp))
             /\ \E again \in {add_pending_filing(trading_file', tmp_files',
                                                 last_call'.filing_info, "none")} :
                   /\ ~again.raised /\ again.ret = FALSE
                   /\ queue_of(again.tfile) = queue_of(trading_file')]_vars

C6_AddRefusedForQueuedLink ==
    /\ last_call.op = "add_pending_filing" /\ last_call.ret = FALSE /\ ~last_call.raised
    /\ queued(trading_file, last_call.filing_info.pdf_url)

\* C7: the pending queue never holds two entries with the same link.
C7_QueueLinksUnique ==
    \A i, j \in 1..Len(queue_of(trading_file)) :
        queue_of(trading_file)[i].pdf_url = queue_of(trading_file)[j].pdf_url => i = j

\* _update_trading_database has met a link twice and the queue holds it once
C7_QueuedOnceFromTwoFilings ==
    /\ last_call.op = "_update_trading_database"
    /\ \E link \in Links :
          /\ Len(SelectSeq(identify_pending_filings(congress_file).filings,
                           LAMBDA f : f.pdf_url = link)) = 2
          /\ Len(SelectSeq(queue_of(trading_file), LAMBDA e : e.pdf_url = link)) = 1

\* C8: no two filings of the registry have the same link.
C8_RegistryLinksUnique ==
    \A i, j \in 1..Len(file_filings(congress_file)) :
        file_filings(congress_file)[i].pdf_link = file_filings(congress_file)[j].pdf_link
            => i = j

\* C9: a filing whose status is processed or failed keeps that status in every
\* step of the pipeline.
C9_TerminalStatusKept ==
    [][\A mi \in 1..Len(members_of(congress_file)) :
          \A fi \in 1..Len(members_of(congress_file)[mi].filings) :
              status_of(members_of(congress_file)[mi].filings[fi]) \in Terminal
                  => /\ mi <= Len(members_of(congress_file'))
                     /\ fi <= Len(members_of(congress_file')[mi].filings)
                     /\ status_of(members_of(congress_file')[mi].filings[fi])
                            = status_of(members_of(congress_file)[mi].filings[fi])]_vars

\* C10: after mark_filing_error(link, message, is_permanent = True) for a link
\* of the registry, the queue has no entry with the link, the ledger holds an
\* error result with the message and permanent set, and every registry filing
\* with the link has status failed and the message as its error.
C10_PermanentErrorRecorded ==
    (/\ last_call.op = "mark_filing_error" /\ last_call.is_permanent /\ ~last_call.raised
     /\ in_registry(congress_file, last_call.pdf_url))
        => /\ ~queued(trading_file, last_call.pdf_url)
           /\ error_recorded(trading_file, last_call.error_message)
           /\ \A i \in 1..Len(filings_with(congress_file, last_call.pdf_url)) :
                 /\ status_of(filings_with(congress_file, last_call.pdf_url)[i]) = "failed"
                 /\ dict_get(filings_with(congress_file, last_call.pdf_url)[i], "error", <<>>)
                        = last_call.error_message

\* the ledger a file gives when loaded, its last_updated stamp set aside
ledger_content(tfile) == dict_set(load_trading_data(tfile).data, "last_updated", Timestamp)

\* C11: mark_filing_error(link, message, is_permanent = False) leaves the
\* registry file as it is and the ledger as it is but for its last_updated
\* stamp: same queue, same processed results, same summary.
C11_TransientErrorChangesNothing ==
    [][(last_call'.op = "mark_filing_error" /\ ~last_call'.is_permanent /\ ~last_call'.raised)
          => /\ congress_file' = congress_file
             /\ queue_of(trading_file') = queue_of(trading_file)
             /\ results_of(trading_file') = results_of(trading_file)
             /\ ledger_content(trading_file') = ledger_content(trading_file)]_vars

\* a transient error marked for a pending filing that is queued
C11_TransientErrorOnQueuedFiling ==
    /\ last_call.op = "mark_filing_error" /\ ~last_call.is_permanent /\ ~last_call.raised
    /\ queued(trading_file, last_call.pdf_url)
    /\ returned_pending(congress_file, last_call.pdf_url)

\* the message is kept somewhere in the two files: in a processed result, on a
\* queue entry of the link, or on a registry filing of the link
error_context_stored(cfile, tfile, link, error_message) ==
    \/ \E k \in DOMAIN results_of(tfile) :
          /\ "result" \in DOMAIN results_of(tfile)[k]
          /\ results_of(tfile)[k].result.error = error_message
    \/ \E i \in 1..Len(queue_of(tfile)) :
          /\ queue_of(tfile)[i].pdf_url = link
          /\ dict_get(queue_of(tfile)[i], "error", <<>>) = error_message
    \/ \E i \in 1..Len(filings_with(cfile, link)) :
          dict_get(filings_with(cfile, link)[i], "error", <<>>) = error_message

\* C12: after mark_filing_error(link, message, is_permanent = False) the
\* message is persisted in the store for that link.
C12_TransientErrorPersisted ==
    (last_call.op = "mark_filing_error" /\ ~last_call.is_permanent /\ ~last_call.raised)
        => error_context_stored(congress_file, trading_file, last_call.pdf_url,
                                last_call.error_message)

\* C13: every processed result of the ledger is keyed by a document id, and
\* for every registry filing with a terminal status the ledger holds a result
\* under that filing's pdf_id.
C13_ResultsKeyedByDocumentId ==
    /\ DOMAIN results_of(trading_file) \subseteq FilingIds
    /\ \A i \in 1..Len(file_filings(congress_file)) :
          status_of(file_filings(congress_file)[i]) \in Terminal
              => file_filings(congress_file)[i].pdf_id \in DOMAIN results_of(trading_file)

\* the number of transactions in the result the ledger holds for the link
stored_transaction_count(tfile, link) ==
    Len(results_of(tfile)[pdf_id_of(link)].transactions)

\* C14: when the pipeline has processed a filing successfully, the registry
\* filing's has_stock_transactions is TRUE if the extraction produced at least
\* one transaction and FALSE if it produced none.
C14_HasStockTransactionsMatchesResult ==
    (last_call.op = "process_item" /\ last_call.outcome = "extracted"
        /\ ~last_call.raised /\ ~last_call.store_error)
        => \E i \in 1..Len(filings_with(congress_file, last_call.pdf_url)) :
              /\ status_of(filings_with(congress_file, last_call.pdf_url)[i]) = "processed"
              /\ dict_get(filings_with(congress_file, last_call.pdf_url)[i],
                          "has_stock_transactions", None)
                    = (stored_transaction_count(trading_file, last_call.pdf_url) > 0)

\* C15: mark_filing_processed(link, result) for a link no registry filing has
\* raises nothing, leaves the registry file as it is, removes the link's
\* entries from the queue and keeps the others, and records the result in the
\* ledger under the link's document id.
C15_ProcessedUnknownLinkWritesLedgerOnly ==
    [][(/\ last_call'.op = "mark_filing_processed"
        /\ load_congress_data(congress_file).ok
        /\ load_trading_data(trading_file).ok
        /\ ~in_registry(congress_file, last_call'.pdf_url))
          => /\ ~last_call'.raised
             /\ congress_file' = congress_file
             /\ queue_of(trading_file')
                   = without_url(queue_of(trading_file), last_call'.pdf_url)
             /\ truthy(last_call'.result)
                   => /\ pdf_id_of(last_call'.pdf_url) \in DOMAIN results_of(trading_file')
                      /\ results_of(trading_file')[pdf_id_of(last_call'.pdf_url)]
                            = last_call'.result]_vars

\* a result marked for a queued link that no registry filing has
C15_QueuedUnknownLinkProcessed ==
    /\ last_call.op = "mark_filing_processed" /\ ~last_call.raised
    /\ last_call.dequeued /\ truthy(last_call.result)
    /\ ~in_registry(congress_file, last_call.pdf_url)
    /\ pdf_id_of(last_call.pdf_url) \in DOMAIN results_of(trading_file)

\* C16: load_congress_data returns total_members equal to the number of
\* members and total_filings equal to the number of filings of the file it
\* loaded, whatever counters the file carries.
C16_LoadedCountersRecomputed ==
    (last_call.op = "load_congress_data" /\ ~last_call.raised)
        => /\ last_call.total_members = Len(members_of(congress_file))
           /\ last_call.total_filings = count_filings(members_of(congress_file))

\* C17: after save_congress_data the persisted total_members and total_filings
\* are the number of members and of filings of the persisted registry, and
\* after save_trading_data the persisted summary's processed_pdfs and
\* pending_pdfs are the sizes of the persisted processed_filings and
\* pending_processing, whatever the caller's data carried in these fields.
C17_SavedCountersRecomputed ==
    /\ (last_call.op = "save_congress_data" /\ ~last_call.raised)
          => /\ congress_file.data.members = last_call.data.members
             /\ congress_file.data.total_members = Len(last_call.data.members)
             /\ congress_file.data.total_filings = count_filings(last_call.data.members)
    /\ (last_call.op = "save_trading_data" /\ ~last_call.raised)
          => /\ queue_of(trading_file) = last_call.data.pending_processing
             /\ results_of(trading_file) = last_call.data.processed_filings
             /\ trading_file.data.summary.processed_pdfs
                   = Cardinality(DOMAIN last_call.data.processed_filings)
             /\ trading_file.data.summary.pending_pdfs
                   = Len(last_call.data.pending_processing)

\* a ledger saved whose caller left a stale pending count in the summary, over
\* a registry saved from data whose counters were wrong
C17_SavedWithStaleCounters ==
    /\ last_call.op = "save_trading_data" /\ ~last_call.raised
    /\ "summary" \in DOMAIN last_call.data
    /\ last_call.data.summary.pending_pdfs # Len(last_call.data.pending_processing)
    /\ congress_file.exists /\ congress_file.json = "object"
    /\ Len(congress_file.data.members) = 1

\* the places of the filings of a registry: <<member index, filing index>>
places(members) ==
    UNION {{<<i, j>> : j \in 1..Len(members[i].filings)} : i \in 1..Len(members)}

\* the filing but for the fields update_status writes
apart_from_status(filing) ==
    [k \in DOMAIN filing \ {"processing_status", "status_updated", "error"} |-> filing[k]]

\* C18: update_status(id, status, message) for an id no filing has raises
\* KeyError and leaves the registry file as it is; for an id some filing has it
\* raises nothing, gives the first such filing the status and a status_updated
\* stamp, and the message as its error when one is given (its error is as before
\* when none is), and leaves every other filing, and the members, as they were.
C18_UpdateStatusChangesOneFiling ==
    [][(last_call'.op = "update_status" /\ load_congress_data(congress_file).ok)
          => IF locate(members_of(congress_file), "pdf_id", last_call'.filing_id) = <<0, 0>>
             THEN /\ last_call'.raised /\ last_call'.error = "KeyError"
                  /\ congress_file' = congress_file
             ELSE /\ ~last_call'.raised
                  /\ places(members_of(congress_file')) = places(members_of(congress_file))
                  /\ \A at \in places(members_of(congress_file)) :
                        IF at = locate(members_of(congress_file), "pdf_id",
                                       last_call'.filing_id)
                        THEN /\ filing_at(members_of(congress_file'), at).pdf_id
                                   = last_call'.filing_id
                             /\ status_of(filing_at(members_of(congress_file'), at))
                                   = last_call'.status
                             /\ filing_at(members_of(congress_file'), at).status_updated
                                   = Timestamp
                             /\ IF last_call'.error_message # <<>>
                                THEN truthy_key(filing_at(members_of(congress_file'), at),
                                                "error")
                                     /\ filing_at(members_of(congress_file'), at).error
                                           = last_call'.error_message
                                ELSE [k \in DOMAIN filing_at(members_of(congress_file'), at)
                                                \cap {"error"} |->
                                         filing_at(members_of(congress_file'), at)[k]]
                                     = [k \in DOMAIN filing_at(members_of(congress_file), at)
                                                \cap {"error"} |->
                                           filing_at(members_of(congress_file), at)[k]]
                             /\ apart_from_status(filing_at(members_of(congress_file'), at))
                                   = apart_from_status(filing_at(members_of(congress_file),
                                                                 at))
                        ELSE filing_at(members_of(congress_file'), at)
                                = filing_at(members_of(congress_file), at)
                  /\ \A i \in 1..Len(members_of(congress_file)) :
                        /\ members_of(congress_file')[i].key = members_of(congress_file)[i].key
                        /\ members_of(congress_file')[i].name
                              = members_of(congress_file)[i].name]_vars

\* a status with an error message given to the first of two filings that
\* share a document id
C18_StatusSetOnFirstOfTwo ==
    /\ last_call.op = "update_status" /\ ~last_call.raised
    /\ last_call.error_message # <<>>
    /\ \E at, other \in places(members_of(congress_file)) :
          /\ at # other
          /\ filing_at(members_of(congress_file), at).pdf_id = last_call.filing_id
          /\ filing_at(members_of(congress_file), other).pdf_id = last_call.filing_id
          /\ truthy_key(filing_at(members_of(congress_file), at), "error")
          /\ filing_at(members_of(congress_file), at).error = last_call.error_message
          /\ "status_updated" \notin DOMAIN filing_at(members_of(congress_file), other)

\* the places of the filings mark_filings_as_pending(pdf_urls) is to mark: the
\* link is in the list and the filing has no processing_status
unmarked(members, pdf_urls) ==
    {at \in places(members) :
        /\ \E i \in 1..Len(pdf_urls) : pdf_urls[i] = filing_at(members, at).pdf_link
        /\ "processing_status" \notin DOMAIN filing_at(members, at)}

\* C19: mark_filings_as_pending(links) returns the number of filings whose
\* link is in the list and that have no status; it gives exactly these the
\* status pending and a status_updated stamp and leaves every other filing as
\* it was; when the number is zero the registry file is not written.
C19_MarkPendingOnlyUnmarked ==
    [][(last_call'.op = "mark_filings_as_pending" /\ load_congress_data(congress_file).ok)
          => /\ last_call'.count
                   = Cardinality(unmarked(members_of(congress_file), last_call'.pdf_urls))
             /\ last_call'.count = 0
                   => congress_file' = congress_file /\ tmp_files' = tmp_files
             /\ places(members_of(congress_file')) = places(members_of(congress_file))
             /\ \A at \in places(members_of(congress_file)) :
                   filing_at(members_of(congress_file'), at)
                      = IF at \in unmarked(members_of(congress_file), last_call'.pdf_urls)
                        THEN dict_set(dict_set(filing_at(members_of(congress_file), at),
                                               "processing_status", "pending"),
                                      "status_updated", Timestamp)
                        ELSE filing_at(members_of(congress_file), at)]_vars

\* two links listed over a registry of two filings, one of them marked: the
\* other had a status already
C19_OneOfTwoListedMarked ==
    /\ last_call.op = "mark_filings_as_pending"
    /\ Len(last_call.pdf_urls) = 2 /\ last_call.count = 1
    /\ \E at, other \in places(members_of(congress_file)) :
          /\ filing_at(members_of(congress_file), at).pdf_link = last_call.pdf_urls[2]
          /\ filing_at(members_of(congress_file), other).pdf_link = last_call.pdf_urls[1]
          /\ "status_updated" \in DOMAIN filing_at(members_of(congress_file), at)
          /\ "status_updated" \notin DOMAIN filing_at(members_of(congress_file), other)

\* the places of the filings whose status is absent or pending
open_places(members) ==
    {at \in places(members) :
        "processing_status" \in DOMAIN filing_at(members, at)
            => filing_at(members, at).processing_status = "pending"}

\* the entry is the one of the filing at the place
entry_of(entry, members, at) ==
    /\ entry.member_name = members[at[1]].name
    /\ entry.pdf_url = filing_at(members, at).pdf_link
    /\ entry.pdf_id = filing_at(members, at).pdf_id
    /\ entry.filing_type = filing_at(members, at).filing_type
    /\ entry.year = filing_at(members, at).year

\* C20: identify_pending_filings() returns as many entries as the registry has
\* filings whose status is absent or pending; each such filing has its entry,
\* with the member's name and the filing's link, document id, filing type and
\* year, and every entry is the entry of such a filing; the call leaves both
\* files and the temporary files as they are.
C20_PendingFilingsIdentified ==
    [][/\ load_congress_data(congress_file).ok
          => /\ ~identify_pending_filings(congress_file).raised
             /\ Len(identify_pending_filings(congress_file).filings)
                   = Cardinality(open_places(members_of(congress_file)))
             /\ \A at \in open_places(members_of(congress_file)) :
                   \E i \in 1..Len(identify_pending_filings(congress_file).filings) :
                      entry_of(identify_pending_filings(congress_file).filings[i],
                               members_of(congress_file), at)
             /\ \A i \in 1..Len(identify_pending_filings(congress_file).filings) :
                   \E at \in open_places(members_of(congress_file)) :
                      entry_of(identify_pending_filings(congress_file).filings[i],
                               members_of(congress_file), at)
       /\ last_call'.op = "identify_pending_filings"
          => /\ last_call'.pending = Cardinality(open_places(members_of(congress_file)))
             /\ congress_file' = congress_file
             /\ trading_file' = trading_file
             /\ tmp_files' = tmp_files]_vars

\* the pending filings identified over a registry that also holds a filing
\* with a terminal status
C20_IdentifiedBesideTerminalFiling ==
    /\ last_call.op = "identify_pending_filings"
    /\ last_call.pending = 1
    /\ \E at \in places(members_of(congress_file)) :
          status_of(filing_at(members_of(congress_file), at)) \in Terminal

\* C21: an item of the batch whose download returns nothing, or raises once
\* its attempts are used up, is not classified permanent, whatever the message
\* of the failure: the step raises nothing, the queue is as it was and so is the
\* registry file, where the item's filing keeps its status.
C21_DownloadFailureIsTransient ==
    [][(last_call'.op = "process_item"
        /\ last_call'.outcome \in {"download_none", "download_raises"})
          => /\ ~last_call'.raised
             /\ ~last_call'.permanent
             /\ queue_of(trading_file') = queue_of(trading_file)
             /\ results_of(trading_file') = results_of(trading_file)
             /\ congress_file' = congress_file]_vars

\* a download that raised for a failure whose message holds a permanence
\* keyword; the item is still queued and still identified as pending
C21_RaisedDownloadStaysQueued ==
    /\ last_call.op = "process_item" /\ last_call.outcome = "download_raises"
    /\ _is_permanent_error(last_call.message)
    /\ ~last_call.raised
    /\ queued(trading_file, last_call.pdf_url)
    /\ returned_pending(congress_file, last_call.pdf_url)

\* how many filings of the registry with the link identify_pending_filings returns
pending_with(cfile, link) ==
    Cardinality({i \in 1..Len(identify_pending_filings(cfile).filings) :
                    identify_pending_filings(cfile).filings[i].pdf_url = link})

\* C22: for a batch item whose extraction reports an error: when the message
\* holds a permanence keyword the item's queue entry is removed and its filing
\* is marked failed, one pending filing fewer with its link; when it holds none
\* the queue and the registry file are as they were.
C22_ExtractionErrorClassified ==
    [][(last_call'.op = "process_item" /\ last_call'.outcome = "extract_error"
        /\ ~last_call'.raised)
          => IF _is_permanent_error(last_call'.message)
             THEN /\ last_call'.permanent
                  /\ ~queued(trading_file', last_call'.pdf_url)
                  /\ \E i \in 1..Len(filings_with(congress_file', last_call'.pdf_url)) :
                        status_of(filings_with(congress_file', last_call'.pdf_url)[i])
                           = "failed"
                  /\ pending_with(congress_file', last_call'.pdf_url)
                        = pending_with(congress_file, last_call'.pdf_url) - 1
             ELSE /\ ~last_call'.permanent
                  /\ queue_of(trading_file') = queue_of(trading_file)
                  /\ congress_file' = congress_file]_vars

\* C23: _is_permanent_error(message) is true exactly for the messages in which
\* one of the nine keywords stands, in small letters, capitals or capitalized;
\* a message built around "file not found" is permanent, "timeout" is not.
C23_ClassifierMatchesKeywords ==
    last_call.op = "_is_permanent_error"
        => /\ last_call.ret = last_call.holds_keyword
           /\ last_call.error_message = MsgNotFound => last_call.ret
           /\ last_call.error_message = MsgTimeout => ~last_call.ret

\* a message with a keyword in capitals inside it, classified permanent
C23_CapitalKeywordPermanent ==
    /\ last_call.op = "_is_permanent_error" /\ last_call.ret
    /\ last_call.error_message
          = <<"E","r","r","o","r",":"," ">> \o str_upper(permanent_patterns[5])
              \o <<" ","(","4","0","4",")">>

\* C24: the batch of a run holds at most max_files_per_run items; they are
\* attempted one at a time in the order of the batch; and each is an entry of
\* the pending queue at the moment it is attempted.
C24_BatchBoundedAndQueued ==
    [][last_call'.op = "process_item"
          => /\ run.pc = "batch"
             /\ Len(run.files_to_process) <= run.max_files_per_run
             /\ run.done < run.max_files_per_run
             /\ last_call'.pdf_url = run.files_to_process[run.done + 1].pdf_url
             /\ run'.pc = "batch" => run'.done = run.done + 1
             /\ queued(trading_file, last_call'.pdf_url)]_vars

\* C25: a batch item whose download or extraction fails, the store writing
\* without fault, raises nothing and the loop goes on to the next item; a step
\* that ends the run early is one where a store write failed; and a run that
\* reaches its end has attempted every item of its batch.
C25_FailedItemDoesNotStopBatch ==
    [][/\ last_call'.op = "process_item"
          => /\ last_call'.raised => last_call'.faulty
             /\ ~last_call'.faulty
                   => /\ ~last_call'.raised
                      /\ run'.pc = "batch"
                      /\ run'.done = run.done + 1
                      /\ run'.files_to_process = run.files_to_process
       /\ (run.pc = "batch" /\ last_call'.op = "run" /\ ~last_call'.raised)
          => last_call'.attempted = Len(run.files_to_process)]_vars

\* the second item of a batch attempted after the first failed without being
\* counted: neither item was processed
C25_SecondItemAfterFailure ==
    /\ run.pc = "batch" /\ run.done = 2 /\ run.processed = 0
    /\ last_call.op = "process_item" /\ ~last_call.faulty
    /\ last_call.outcome \in {"download_raises", "extract_error"}

\* C26: the summary of a run that reached its end counts every attempted item
\* once, as successful or as failed: successful + failed = processed, and
\* processed is the number of items attempted.
C26_EveryAttemptReported ==
    (last_call.op = "run" /\ ~last_call.raised)
        => /\ last_call.successful + last_call.failed = last_call.processed
           /\ last_call.processed = last_call.attempted

\* C27: the download directory exists only while a batch is being processed:
\* once the batch has ended, by reaching its end or by an error that left the
\* loop, the directory is gone.
C27_TempDirGoneAfterBatch ==
    /\ run.pc = "batch" => run.temp_dir = "exists"
    /\ run.pc # "batch" => run.temp_dir # "exists"

\* a batch left by a store error, its download directory removed
C27_TempDirGoneAfterStoreError ==
    /\ run.pc = "idle" /\ run.temp_dir = "removed"
    /\ last_call.op = "process_item" /\ last_call.raised

\* the file parses as JSON but is no dict with a members entry
misshapen(cfile) ==
    /\ cfile.exists /\ cfile.json # "invalid"
    /\ cfile.json = "object" => "members" \notin DOMAIN cfile.data

\* C28: load_congress_data over a file that parses as JSON but is no dict
\* with members raises the error it raises for text that does not parse, and
\* returns nothing; and a step of a pipeline run over such a file writes
\* neither file, the run ending with the error at its first load.
C28_MisshapenRegistryRejected ==
    [][misshapen(congress_file)
          => /\ last_call'.op = "load_congress_data"
                   => /\ last_call'.raised
                      /\ last_call'.error = load_congress_data(UnparsableFile).error
             /\ last_call'.op \in {"_run_scraper", "_update_trading_database", "run"}
                   => /\ congress_file' = congress_file
                      /\ trading_file' = trading_file
             /\ (run.pc = "update" /\ run' # run)
                   => run'.pc = "idle" /\ last_call' = [op |-> "run", raised |-> TRUE]]_vars

\* C29: with no registry file load_congress_data returns, without raising, a
\* registry with an empty members map and both counters 0; with no ledger file
\* load_trading_data returns, without raising, a ledger with an empty pending
\* list, an empty processed map and a summary whose three counters are 0; and
\* neither load creates or changes a file.
C29_MissingFileLoadsEmpty ==
    [][LET whole_empty_registry(data) ==
               /\ "members" \in DOMAIN data /\ data.members = <<>>
               /\ "total_members" \in DOMAIN data /\ data.total_members = 0
               /\ "total_filings" \in DOMAIN data /\ data.total_filings = 0
           whole_empty_ledger(data) ==
               /\ "pending_processing" \in DOMAIN data /\ data.pending_processing = <<>>
               /\ "processed_filings" \in DOMAIN data /\ data.processed_filings = <<>>
               /\ "summary" \in DOMAIN data
               /\ \A k \in {"total_pdfs", "processed_pdfs", "pending_pdfs"} :
                     k \in DOMAIN data.summary /\ data.summary[k] = 0
       IN /\ (last_call'.op = "load_congress_data" /\ ~congress_file.exists)
               => /\ ~last_call'.raised
                  /\ whole_empty_registry(last_call'.data)
                  /\ UNCHANGED <<congress_file, trading_file, tmp_files>>
          /\ (last_call'.op = "load_trading_data" /\ ~trading_file.exists)
               => /\ ~last_call'.raised
                  /\ whole_empty_ledger(last_call'.data)
                  /\ UNCHANGED <<congress_file, trading_file, tmp_files>>]_vars

\* a ledger was loaded from a data directory that holds neither file
C29_EmptyLedgerLoaded ==
    /\ last_call.op = "load_trading_data"
    /\ ~trading_file.exists /\ ~congress_file.exists
    /\ ~last_call.raised
    /\ last_call.data.summary.pending_pdfs = 0

\* C30: an amount line whose first amount has the value v gives "$v" when
\* v < 1,000; otherwise the inclusive range that ends at the smallest of the
\* bounds 15,000 / 50,000 / 100,000 / 250,000 / 500,000 / 1,000,000 /
\* 5,000,000 / 25,000,000 / 50,000,000 that is at least v; and
\* "Over $50,000,000" when v is above 50,000,000.  999 gives "$999", 15000
\* gives "$1,001 - $15,000", 15001 gives "$15,001 - $50,000" and 100000001
\* gives "Over $50,000,000".
C30_AmountBucketed ==
    (last_call.op = "_extract_and_categorize_amount" /\ last_call.amount_value >= 0)
    => LET v == last_call.amount_value
           ret == last_call.ret
           bounds == <<15000, 50000, 100000, 250000, 500000, 1000000, 5000000,
                       25000000, 50000000>>
           label(i) == <<"$">>
                       \o format_int((IF i = 1 THEN 1000 ELSE bounds[i - 1]) + 1, <<",">>)
                       \o <<" ", "-", " ", "$">> \o format_int(bounds[i], <<",">>)
           smallest == CHOOSE i \in DOMAIN bounds :
                          /\ v <= bounds[i]
                          /\ \A k \in DOMAIN bounds : v <= bounds[k] => i <= k
       IN /\ v < 1000 => ret = <<"$">> \o format_int(v, <<>>)
          /\ (v >= 1000 /\ v <= 50000000) => ret = label(smallest)
          /\ v > 50000000 => ret = <<"O","v","e","r"," ","$","5","0",",","0","0","0",",","0","0","0">>
          /\ v = 999 => ret = <<"$","9","9","9">>
          /\ v = 15000 => ret = <<"$","1",",","0","0","1"," ","-"," ","$","1","5",",","0","0","0">>
          /\ v = 15001 => ret = <<"$","1","5",",","0","0","1"," ","-"," ","$","5","0",",","0","0","0">>
          /\ v = 100000001 => ret = <<"O","v","e","r"," ","$","5","0",",","0","0","0",",","0","0","0">>

\* 15,001 read from a line that holds text before it and a second amount after it
C30_FirstAmountJustAboveBound ==
    /\ last_call.op = "_extract_and_categorize_amount"
    /\ last_call.amount_value = 15001
    /\ last_call.line = <<"P"," ","$"," ","$","1","5",",","0","0","1"," ","$","9">>
    /\ last_call.ret = <<"$","1","5",",","0","0","1"," ","-"," ","$","5","0",",","0","0","0">>

\* the one transaction the example of the specification names
example_transaction(ret) ==
    /\ Len(ret) = 1
    /\ ret[1].ticker = <<"A","A","P","L">>
    /\ ret[1].transaction_type = "Purchase"
    /\ ret[1].transaction_date = <<"0","1","/","0","2","/","2","0","2","4">>
    /\ ret[1].notification_date = <<"0","1","/","0","5","/","2","0","2","4">>
    /\ ret[1].amount = <<"$","1",",","0","0","1"," ","-"," ","$","1","5",",","0","0","0">>

\* C31 as stated: the document whose page 1 has no transaction-shaped line and
\* whose page 2 is the single line
\* "AAPL Inc (AAPL) P 01/02/2024 01/05/2024 $15,000" gives exactly one
\* transaction: ticker AAPL, kind Purchase, dates 01/02/2024 and 01/05/2024,
\* amount "$1,001 - $15,000".
C31_ExampleAsStated ==
    (/\ last_call.op = "_extract_all_transactions"
     /\ last_call.pages = << <<<<"F","i","l","i","n","g"," ","I","D"," ","#","1">>>>,
                             <<<<"A","A","P","L"," ","I","n","c"," ","(","A","A","P","L",")"," ","P"," ","0","1","/","0","2","/","2","0","2","4"," ","0","1","/","0","5","/","2","0","2","4"," ","$","1","5",",","0","0","0">>>> >>)
    => example_transaction(last_call.ret)

\* C31 amended: that document gives no transaction, the line holding no stock
\* marker; with the marker, page 2 being the single line
\* "AAPL Inc (AAPL) [ST] P 01/02/2024 01/05/2024 $15,000", it gives exactly one
\* transaction: ticker AAPL, kind Purchase, dates 01/02/2024 and 01/05/2024,
\* amount "$1,001 - $15,000".
C31_ExampleWithMarker ==
    last_call.op = "_extract_all_transactions"
    => /\ last_call.pages = << <<<<"F","i","l","i","n","g"," ","I","D"," ","#","1">>>>,
                               <<<<"A","A","P","L"," ","I","n","c"," ","(","A","A","P","L",")"," ","P"," ","0","1","/","0","2","/","2","0","2","4"," ","0","1","/","0","5","/","2","0","2","4"," ","$","1","5",",","0","0","0">>>> >>
             => last_call.ret = <<>>
       /\ last_call.pages = << <<<<"F","i","l","i","n","g"," ","I","D"," ","#","1">>>>,
                               <<<<"A","A","P","L"," ","I","n","c"," ","(","A","A","P","L",")"," ","[","S","T","]"," ","P"," ","0","1","/","0","2","/","2","0","2","4"," ","0","1","/","0","5","/","2","0","2","4"," ","$","1","5",",","0","0","0">>>> >>
             => example_transaction(last_call.ret)

\* the two-page document with the marked line has been extracted
C31_MarkedExampleExtracted ==
    /\ last_call.op = "_extract_all_transactions"
    /\ last_call.pages = << <<<<"F","i","l","i","n","g"," ","I","D"," ","#","1">>>>,
                            <<<<"A","A","P","L"," ","I","n","c"," ","(","A","A","P","L",")"," ","[","S","T","]"," ","P"," ","0","1","/","0","2","/","2","0","2","4"," ","0","1","/","0","5","/","2","0","2","4"," ","$","1","5",",","0","0","0">>>> >>
    /\ Len(last_call.ret) = 1
    /\ last_call.ret[1].asset = <<"A","A","P","L"," ","I","n","c">>

\* C32: every transaction extraction emits has a non-empty asset name, a
\* non-empty ticker, a transaction date and a notification date, and a
\* non-empty amount; a candidate line that lacks its second date, its asset
\* name or its amount gives no record: the records are as many as the lines
\* they come from, and each of those lines holds two dates and an amount.
C32_NoPartialTransaction ==
    last_call.op = "_extract_all_transactions"
    => /\ \A k \in 1..Len(last_call.ret) :
             /\ last_call.ret[k].asset # <<>>
             /\ last_call.ret[k].ticker # <<>>
             /\ date_starts(last_call.ret[k].transaction_date) = {1}
             /\ date_starts(last_call.ret[k].notification_date) = {1}
             /\ last_call.ret[k].amount # <<>>
       /\ Len(last_call.ret) = SumSeq([p \in 1..Len(last_call.origin) |->
                                         Len(last_call.origin[p])])
       /\ \A p \in 1..Len(last_call.origin) : \A k \in 1..Len(last_call.origin[p]) :
             /\ Len(_extract_dates(last_call.pages[p][last_call.origin[p][k]])) >= 2
             /\ amount_match(last_call.pages[p][last_call.origin[p][k]]) # <<>>
       /\ \A line \in {<<"A","p","p","l","e"," ","(","A","A","P","L",")"," ","[","S","T","]"," ","P"," ","0","1","/","0","2","/","2","0","2","4"," ","$","5">>,
                        <<"(","A","A","P","L",")"," ","[","S","T","]"," ","P"," ","0","1","/","0","2","/","2","0","2","4"," ","0","1","/","0","5","/","2","0","2","4"," ","$","1","5",",","0","0","0">>,
                        <<"A","p","p","l","e"," ","(","A","A","P","L",")"," ","[","S","T","]"," ","P"," ","0","1","/","0","2","/","2","0","2","4"," ","0","1","/","0","5","/","2","0","2","4"," ","$"," ","T","B","D">>} :
             last_call.pages = << <<line>> >> => last_call.ret = <<>>

\* a page whose first line lacks its amount and whose second line is whole
C32_OnlyWholeCandidateEmitted ==
    /\ last_call.op = "_extract_all_transactions"
    /\ last_call.pages = << <<<<"A","p","p","l","e"," ","(","A","A","P","L",")"," ","[","S","T","]"," ","P"," ","0","1","/","0","2","/","2","0","2","4"," ","0","1","/","0","5","/","2","0","2","4"," ","$"," ","T","B","D">>,
                              <<"A","A","P","L"," ","I","n","c"," ","(","A","A","P","L",")"," ","[","S","T","]"," ","P"," ","0","1","/","0","2","/","2","0","2","4"," ","0","1","/","0","5","/","2","0","2","4"," ","$","1","5",",","0","0","0">>>> >>
    /\ last_call.origin = << <<2>> >>
    /\ Len(last_call.ret) = 1

\* the lines the emitted transactions come from, in the order of the transactions
emitting_texts(call) ==
    Flatten([p \in 1..Len(call.origin) |->
                [k \in 1..Len(call.origin[p]) |-> call.pages[p][call.origin[p][k]]]])

\* C33: a transaction that comes from a line beginning with SP, DC or JT and a
\* blank has owner Spouse, Dependent Child or Joint and an asset name that does
\* not start with the owner code; one that comes from a line without such a
\* beginning has owner Self.
C33_OwnerCodeStripped ==
    last_call.op = "_extract_all_transactions"
    => \A k \in 1..Len(last_call.ret) :
          LET line == emitting_texts(last_call)[k]
              code == SubSeq(line, 1, 2)
              t == last_call.ret[k]
          IN IF Len(line) >= 4 /\ line[3] = " "
                /\ code \in {<<"S","P">>, <<"D","C">>, <<"J","T">>}
             THEN /\ code = <<"S","P">> => t.owner = "Spouse"
                  /\ code = <<"D","C">> => t.owner = "Dependent Child"
                  /\ code = <<"J","T">> => t.owner = "Joint"
                  /\ SubSeq(t.asset, 1, 2) # code
             ELSE t.owner = "Self"

\* C34: a transaction comes from line i of a page only if "[ST]" occurs in
\* line i, i+1 or i+2 of that page, as far as the page goes; the marker in a
\* line before i, in line i+3 or on another page does not count; and the
\* transactions stand in page order, then line order.
C34_MarkerWindow ==
    last_call.op = "_extract_all_transactions"
    => LET pages == last_call.pages
           origin == last_call.origin
           unmarked_line == <<"A","A","P","L"," ","I","n","c"," ","(","A","A","P","L",")"," ","P"," ","0","1","/","0","2","/","2","0","2","4"," ","0","1","/","0","5","/","2","0","2","4"," ","$","1","5",",","0","0","0">>
           marker == <<"[","S","T","]">>
           other == <<"F","i","l","i","n","g"," ","I","D"," ","#","1">>
       IN /\ \A p \in 1..Len(pages) : \A k \in 1..Len(origin[p]) :
                /\ \E i \in origin[p][k]..(origin[p][k] + 2) :
                      i <= Len(pages[p]) /\ str_contains(pages[p][i], <<"[","S","T","]">>)
                /\ k > 1 => origin[p][k - 1] < origin[p][k]
          /\ Len(last_call.ret) = Len(emitting_texts(last_call))
          /\ \A k \in 1..Len(last_call.ret) :
                last_call.ret[k].amount
                   = _extract_and_categorize_amount(emitting_texts(last_call)[k])
          /\ pages = << <<unmarked_line, other, marker>> >> => origin = << <<1>> >>
          /\ pages = << <<unmarked_line, other, other, marker>> >> => last_call.ret = <<>>
          /\ pages = << <<marker, unmarked_line>> >> => last_call.ret = <<>>
          /\ pages = << <<unmarked_line>>, <<marker>> >> => last_call.ret = <<>>
          /\ pages = << <<marker>>, <<unmarked_line>> >> => last_call.ret = <<>>

\* the marker two lines below the candidate, at the end of the page
C34_MarkerTwoLinesBelow ==
    /\ last_call.op = "_extract_all_transactions"
    /\ last_call.pages = << <<<<"A","A","P","L"," ","I","n","c"," ","(","A","A","P","L",")"," ","P"," ","0","1","/","0","2","/","2","0","2","4"," ","0","1","/","0","5","/","2","0","2","4"," ","$","1","5",",","0","0","0">>,
                              <<"F","i","l","i","n","g"," ","I","D"," ","#","1">>,
                              <<"[","S","T","]">>>> >>
    /\ Len(last_call.ret) = 1

\* C35: a discovery update that scraped admits exactly the scraped records
\* whose link the registry did not hold, each as a filing with status pending
\* under its member, keeps every member and every filing the registry held as
\* they were, and removes none.
C35_DiscoveryAdmitsOnlyNew ==
    [][(last_call'.op \in {"update_data", "_run_scraper"} /\ last_call'.scraped)
         => LET old == members_of(congress_file)
                new == members_of(congress_file')
                held == {file_filings(congress_file)[i].pdf_link :
                            i \in 1..Len(file_filings(congress_file))}
                is_new(filing) == filing.pdf_link \notin held
                admitted == SelectSeq(last_call'.current_filings, is_new)
                \* the filings of member m that were not there before
                added(m) == SubSeq(new[m].filings,
                                   (IF m <= Len(old) THEN Len(old[m].filings) ELSE 0) + 1,
                                   Len(new[m].filings))
            IN /\ Len(old) <= Len(new)
               /\ \A m \in 1..Len(old) :
                     /\ [k \in DOMAIN old[m] \ {"filings"} |-> new[m][k]]
                           = [k \in DOMAIN old[m] \ {"filings"} |-> old[m][k]]
                     /\ SubSeq(new[m].filings, 1, Len(old[m].filings)) = old[m].filings
               /\ count_filings(new) = count_filings(old) + Len(admitted)
               /\ \A m \in 1..Len(new) : \A k \in 1..Len(added(m)) :
                     /\ added(m)[k].processing_status = "pending"
                     /\ \E i \in 1..Len(admitted) :
                           /\ admitted[i].pdf_link = added(m)[k].pdf_link
                           /\ admitted[i].pdf_id = added(m)[k].pdf_id
                           /\ get_member_key(admitted[i].name, admitted[i].office)
                                 = new[m].key
               /\ \A i \in 1..Len(admitted) :
                     \E m \in 1..Len(new) : \E k \in 1..Len(added(m)) :
                        /\ added(m)[k].pdf_link = admitted[i].pdf_link
                        /\ get_member_key(admitted[i].name, admitted[i].office)
                              = new[m].key]_vars

\* a forced update scraped a held link and a new one: the held filing is
\* processed still, the new one stands behind it, pending
C35_NewFilingBesideProcessedOne ==
    /\ last_call.op = "update_data" /\ last_call.scraped
    /\ Len(last_call.current_filings) = 2
    /\ Len(members_of(congress_file)) = 1
    /\ Len(members_of(congress_file)[1].filings) = 2
    /\ members_of(congress_file)[1].filings[1].pdf_link
          = last_call.current_filings[1].pdf_link
    /\ status_of(members_of(congress_file)[1].filings[1]) = "processed"
    /\ status_of(members_of(congress_file)[1].filings[2]) = "pending"

\* C36: under runs repeated for ever, a filing that is pending is in the end
\* attempted by some run or is pending no more, whatever the batch limit and
\* however the filings listed before it fare.
C36_NoPendingFilingStarved ==
    \A link \in Links :
        pending_with(congress_file, link) > 0
        ~> \/ last_call.op = "process_item" /\ last_call.pdf_url = link
           \/ pending_with(congress_file, link) = 0

\* C37: under runs repeated for ever in which the attempts of a filing end in
\* success or permanent failure, every entry of the pending queue is removed
\* in the end, also after a run was cut short between the registry write and
\* the ledger write of its item.
C37_QueueEntryEventuallyRemoved ==
    \A link \in Links : queued(trading_file, link) ~> ~queued(trading_file, link)

\* whether an unforced update_data run now over this registry file would go on
\* to scrape instead of returning the summary of a skipped update
scrape_due(file) == \E fetch \in Fetches : update_data(file, FALSE, fetch).scraped

\* C38: a registry write made while filings are processed (by the item loop,
\* update_status or mark_filings_as_pending) does not postpone the next
\* scrape: an unforced update that would have scraped before the write would
\* still scrape after it.
C38_ProcessingWriteKeepsScrapeDue ==
    [][last_call'.op \in {"process_item", "update_status", "mark_filings_as_pending"}
       => (scrape_due(congress_file) => scrape_due(congress_file'))]_vars

\* the filings of the registry file whose status is one of these
filings_counted(file, statuses) ==
    Cardinality({i \in 1..Len(file_filings(file)) :
                    status_of(file_filings(file)[i]) \in statuses})

\* C39: get_status_summary counts every filing of the registry in exactly one
\* bucket: each of pending, processed and failed holds the filings with that
\* status, no_status holds all the others (a filing with no status among
\* them, not under pending), the four add up to the number of filings, and
\* the call changes neither file.
C39_SummaryCountsEachFilingOnce ==
    [][last_call'.op = "get_status_summary" /\ ~last_call'.raised
       => LET summary == last_call'.summary
          IN /\ UNCHANGED <<congress_file, trading_file, tmp_files>>
             /\ \A s \in FilingStatus : summary[s] = filings_counted(congress_file, {s})
             /\ summary.no_status
                   = Len(file_filings(congress_file))
                     - filings_counted(congress_file, FilingStatus)
             /\ summary.pending + summary.processed + summary.failed + summary.no_status
                   = Len(file_filings(congress_file))]_vars

\* a summary of a registry with a filing without status beside one with a status
C39_SummaryWithUnmarkedFiling ==
    /\ last_call.op = "get_status_summary"
    /\ ~last_call.raised
    /\ last_call.summary.no_status = 1
    /\ last_call.summary.pending + last_call.summary.processed + last_call.summary.failed = 1
    /\ filings_counted(congress_file, {None}) = 1

\* the registry file holds a filing with this id, the queue of the ledger file
\* an entry with it, the results of the ledger file a key equal to it
id_in_registry(cfile, pdf_id) ==
    \E i \in 1..Len(file_filings(cfile)) : file_filings(cfile)[i].pdf_id = pdf_id

id_queued(tfile, pdf_id) ==
    \E i \in 1..Len(queue_of(tfile)) : queue_of(tfile)[i].pdf_id = pdf_id

id_processed(tfile, pdf_id) == pdf_id \in DOMAIN results_of(tfile)

\* C40: delete_filing(pdf_id) of a filing the registry holds, over a ledger
\* that holds the filing queued, processed, both or neither: with dry_run
\* neither file changes; confirmed, it ends without error, and afterwards no
\* filing of the registry, no queue entry and no key of processed_filings
\* has the id.
C40_ConfirmedDeleteRemovesFiling ==
    [][(/\ last_call'.op = "delete_filing"
        /\ id_in_registry(congress_file, last_call'.pdf_id)
        /\ trading_file.exists /\ trading_file.json = "object")
       => IF last_call'.dry_run
          THEN UNCHANGED <<congress_file, trading_file>>
          ELSE last_call'.confirm
               => /\ ~last_call'.raised
                  /\ ~id_in_registry(congress_file', last_call'.pdf_id)
                  /\ ~id_queued(trading_file', last_call'.pdf_id)
                  /\ ~id_processed(trading_file', last_call'.pdf_id)]_vars

====
